---- MODULE Spec2Model ----
(***************************************************************************)
(* EggBot control engine: Temperature Monitor (sampler thread), PID        *)
(* Regulator, Servo Actuator (motion thread) and the EggBot Engine         *)
(* (control thread and command surface).                                   *)
(*                                                                         *)
(* Units.  Temperatures are integers in tenths of a degree Celsius,        *)
(* voltages in millivolts, times in milliseconds, damper/servo positions   *)
(* in tenths of a percent, PID quantities (error, integral, derivative,    *)
(* output) in tenths, gains and filter coefficients in hundredths.         *)
(***************************************************************************)
EXTENDS Integers, Sequences, FiniteSets, TLC

\* ------------------------------------------------------------------------
\* Bounds of the model
\* ------------------------------------------------------------------------
MaxTicks == 2
MaxLoops == 2
MaxCalls == 2
MaxMotion == 2
\* Passes of the motion thread counted after a manual damper command
MaxMoves == 70

\* Calls of set_position_percent in a run of the Actuator against its daemon
MaxDaemonCalls == 2

\* Cap of the count of failed pulse writes in a row
MaxFailures == 5
\* Telemetry appends and CSV rows of one run
MaxLogs == 5

\* ------------------------------------------------------------------------
\* Small helpers
\* ------------------------------------------------------------------------
Max2(a, b) == IF a >= b THEN a ELSE b

Min2(a, b) == IF a <= b THEN a ELSE b

Abs(a) == IF a >= 0 THEN a ELSE 0 - a

\* Python's max(lo, min(hi, x))
Clamp(lo, hi, x) == Max2(lo, Min2(hi, x))

\* Division truncating toward zero (stands for the float quotient, kept to
\* the model's resolution).
Quot(a, b) == IF a >= 0 THEN a \div b ELSE 0 - ((0 - a) \div b)

NoTemp == -99999

\* ------------------------------------------------------------------------
\* Configuration (pi_native/config)
\* ------------------------------------------------------------------------
\* SafetyLimits defaults, in tenths of a degree
DefaultSafety ==
    [max_pit_temp |-> 4000, min_pit_temp |-> 500,
     high_temp_warning |-> 3500, temp_rate_limit |-> 100,
     probe_timeout |-> 30000]

\* A smoker configured with a lower critical limit (the Engine takes its
\* ControlConfig, hence the SafetyLimits, as a constructor argument).
LowLimitSafety ==
    [max_pit_temp |-> 1500, min_pit_temp |-> 500,
     high_temp_warning |-> 1200, temp_rate_limit |-> 100,
     probe_timeout |-> 30000]

\* A configuration with a probe_timeout of one second
ShortTimeoutSafety ==
    [max_pit_temp |-> 4000, min_pit_temp |-> 500,
     high_temp_warning |-> 3500, temp_rate_limit |-> 100,
     probe_timeout |-> 1000]

SafetyConfigs == {DefaultSafety, LowLimitSafety}

\* PIDLimits of the presets, in tenths; derivative_filter in hundredths
PresetConservative ==
    [kp |-> 200, ki |-> 10, kd |-> 100,
     output_min |-> 0, output_max |-> 1000,
     integral_min |-> -200, integral_max |-> 200,
     derivative_filter |-> 20, sample_time |-> 2000]

PresetSlowCook ==
    [kp |-> 150, ki |-> 5, kd |-> 80,
     output_min |-> 0, output_max |-> 800,
     integral_min |-> -150, integral_max |-> 150,
     derivative_filter |-> 30, sample_time |-> 3000]

PIDConfigs == {PresetConservative, PresetSlowCook}

\* ServoConfig, positions in tenths of a percent
max_speed == 30

position_tolerance == 20

\* Variant: the step of a 100 ms period
MaxStepAtTenHertz == (max_speed * 10) \div 10

\* max_step = max_speed * 0.05, in tenths of a percent
MaxStep == (max_speed * 5) \div 10

min_pulse_width == 1033

max_pulse_width == 1833

\* _initialize_pigpio gives up after this many attempts
max_connection_attempts == 10

\* Engine <-> Monitor wiring: update_interval = main_loop_interval (ms)
update_interval == 250

\* ------------------------------------------------------------------------
\* Thermistor math (pi_native/hardware/thermistor_calc.py)
\* ------------------------------------------------------------------------
supply_voltage == 3300

\* Steinhart-Hart conversion of the pit probe at offset 0, tabulated on the
\* voltages the model samples (values computed with the probe's A, B, C).
SteinhartTable ==
    [v \in {50, 100, 1000, 2000, 2043, 3000, 3200, 3250, 3290, 3299} |->
        CASE v = 50   -> -134
          [] v = 100  -> -1
          [] v = 1000 -> 605
          [] v = 2000 -> 982
          [] v = 2043 -> 1000
          [] v = 3000 -> 1701
          [] v = 3200 -> 2289
          [] v = 3250 -> 2724
          [] v = 3290 -> 4049
          [] v = 3299 -> 7539]

Voltages == DOMAIN SteinhartTable \cup {0, 3300}

\* voltage_to_temperature: NoTemp when voltage_to_resistance raises
voltage_to_temperature(voltage, offset) ==
    IF voltage <= 1 \/ voltage >= supply_voltage
    THEN NoTemp
    ELSE SteinhartTable[voltage] + offset

\* get_temperature_range: conversions of Vcc - 0.1 V and 0.1 V
get_temperature_range(offset) ==
    <<voltage_to_temperature(100, offset),
      voltage_to_temperature(supply_voltage - 100, offset)>>

validate_reading(temperature, offset) ==
    /\ get_temperature_range(offset)[1] <= temperature
    /\ temperature <= get_temperature_range(offset)[2]

\* ------------------------------------------------------------------------
\* Temperature Monitor (pi_native/control/temperature_monitor.py)
\* ------------------------------------------------------------------------
filter_alpha == 70

max_temp_change_per_second == 10

\* ProbeStatus() of a probe that has not been sampled yet
\* float('inf') of the ProbeStatus defaults
Infinity == 999999

InitProbe ==
    [has_reading |-> FALSE, temperature_c |-> 0, is_valid |-> FALSE,
     consecutive_errors |-> 0, is_connected |-> FALSE,
     total_readings |-> 0, temperature_history |-> <<>>,
     average_temp |-> 0, min_temp |-> Infinity, max_temp |-> 0 - Infinity,
     since_update |-> 0]

\* _process_reading: conversion, then validation of the converted value
process_reading(voltage, offset) ==
    LET temp_c == voltage_to_temperature(voltage, offset)
    IN  IF temp_c = NoTemp
        THEN [temperature_c |-> 0, is_valid |-> FALSE]
        ELSE [temperature_c |-> temp_c,
              is_valid |-> validate_reading(temp_c, offset)]

\* The low-pass filter of _update_probe_status.  time_diff is in ms;
\* temp_rate = temp_diff / time_diff is compared in degrees per second.
filtered_temp(probe, reading, time_diff) ==
    IF probe.has_reading /\ reading.is_valid /\ time_diff > 0
    THEN LET temp_diff == Abs(reading.temperature_c - probe.temperature_c)
             alpha == IF temp_diff * 100 > max_temp_change_per_second * time_diff
                      THEN 30 ELSE filter_alpha
         IN  Quot(alpha * reading.temperature_c
                    + (100 - alpha) * probe.temperature_c, 100)
    ELSE reading.temperature_c

AppendHistory(h, t) ==
    IF Len(h) + 1 > 100 THEN Tail(Append(h, t)) ELSE Append(h, t)

\* Variant: the probe is marked after more than 6 errors
too_many_errors_above_six(consecutive_errors) == consecutive_errors > 6

\* _update_probe_status: if probe.consecutive_errors > 5
too_many_errors(consecutive_errors) == consecutive_errors > 5

RECURSIVE SumSeq(_)
SumSeq(h) == IF h = <<>> THEN 0 ELSE Head(h) + SumSeq(Tail(h))

\* Variant: the statistics are updated for every sample
probe_statistics_any_sample(probe, reading, t) ==
    LET h == AppendHistory(probe.temperature_history, t)
    IN  [min_temp |-> Min2(probe.min_temp, t),
         max_temp |-> Max2(probe.max_temp, t),
         temperature_history |-> h,
         average_temp |-> Quot(SumSeq(h), Len(h))]

\* _update_probe_status: min_temp, max_temp, temperature_history and the
\* rolling average, updated in the branch of a valid reading only
probe_statistics(probe, reading, t) ==
    IF reading.is_valid
    THEN LET h == AppendHistory(probe.temperature_history, t)
         IN  [min_temp |-> Min2(probe.min_temp, t),
              max_temp |-> Max2(probe.max_temp, t),
              temperature_history |-> h,
              average_temp |-> Quot(SumSeq(h), Len(h))]
    ELSE [min_temp |-> probe.min_temp,
          max_temp |-> probe.max_temp,
          temperature_history |-> probe.temperature_history,
          average_temp |-> probe.average_temp]

update_probe_status(probe, reading, time_diff) ==
    LET t == filtered_temp(probe, reading, time_diff)
        st == probe_statistics(probe, reading, t)
        seen == [probe EXCEPT !.has_reading = TRUE,
                              !.temperature_c = t,
                              !.is_valid = reading.is_valid,
                              !.total_readings = @ + 1,
                              !.since_update = 0,
                              !.min_temp = st.min_temp,
                              !.max_temp = st.max_temp,
                              !.average_temp = st.average_temp,
                              !.temperature_history = st.temperature_history]
    IN  IF reading.is_valid
        THEN [seen EXCEPT !.consecutive_errors = 0,
                          !.is_connected = TRUE]
        ELSE [seen EXCEPT !.consecutive_errors = @ + 1,
                          !.is_connected =
                              IF too_many_errors(probe.consecutive_errors + 1)
                              THEN FALSE ELSE @]

\* Alerts raised by _update_probe_status
StatusAlerts(probe, reading) ==
    IF ~reading.is_valid /\ too_many_errors(probe.consecutive_errors + 1)
    THEN <<"WARNING">> ELSE <<>>

\* _check_safety, first branch: the CRITICAL condition on the stored reading
CriticalTemp(probe, safety) ==
    /\ probe.has_reading
    /\ probe.is_valid
    /\ probe.temperature_c > safety.max_pit_temp

HighTempWarning(probe, safety) ==
    /\ probe.has_reading
    /\ probe.is_valid
    /\ ~(probe.temperature_c > safety.max_pit_temp)
    /\ probe.temperature_c > safety.high_temp_warning

LastN(h, n) == IF Len(h) <= n THEN h ELSE SubSeq(h, Len(h) - n + 1, Len(h))

\* temp_rate (degrees per minute) > temp_rate_limit over the last 10 readings
RateWarning(probe, safety) ==
    /\ probe.has_reading
    /\ probe.is_valid
    /\ Len(probe.temperature_history) >= 2
    /\ LET recent == LastN(probe.temperature_history, 10)
       IN  (recent[Len(recent)] - recent[1]) * 60000
               > safety.temp_rate_limit * Len(recent) * update_interval

\* _check_safety, last part: no update for more than probe_timeout
\* (since_update is the time since probe.last_update, in ms)
TimeoutWarning(probe, safety) ==
    /\ probe.has_reading
    /\ probe.since_update > safety.probe_timeout

\* Alert levels of one _check_safety pass, in the order they are raised
CheckSafetyAlerts(probe, safety) ==
    (IF CriticalTemp(probe, safety) THEN <<"CRITICAL">>
     ELSE IF HighTempWarning(probe, safety) THEN <<"WARNING">> ELSE <<>>)
    \o (IF RateWarning(probe, safety) THEN <<"WARNING">> ELSE <<>>)
    \o (IF TimeoutWarning(probe, safety) THEN <<"WARNING">> ELSE <<>>)

\* get_current_temperatures()["pit_probe"]
current_pit_temperature(probe) ==
    IF probe.has_reading /\ probe.is_valid THEN probe.temperature_c ELSE NoTemp

\* ------------------------------------------------------------------------
\* PID Regulator (pi_native/control/pid_controller.py)
\* ------------------------------------------------------------------------
max_error_history == 5

\* PIDController.__init__ followed by the Engine's initial set_setpoint(110)
InitPid(c) ==
    [setpoint |-> 1100, process_variable |-> 0, output |-> 0, error |-> 0,
     integral |-> 0, derivative |-> 0, last_error |-> 0,
     auto_mode |-> TRUE, enabled |-> TRUE, latched |-> FALSE,
     error_history |-> <<>>,
     kp |-> c.kp, ki |-> c.ki, kd |-> c.kd,
     output_min |-> c.output_min, output_max |-> c.output_max,
     integral_min |-> c.integral_min, integral_max |-> c.integral_max,
     derivative_filter |-> c.derivative_filter,
     sample_time |-> c.sample_time]

\* Variant: the integral takes the output unclamped
initialize_auto_mode_unclamped(p) ==
    [p EXCEPT !.last_error = 0,
              !.integral = p.output,
              !.error_history = <<>>]

\* _initialize_auto_mode
initialize_auto_mode(p) ==
    [p EXCEPT !.last_error = 0,
              !.integral = Clamp(p.integral_min, p.integral_max, p.output),
              !.error_history = <<>>]

pid_set_auto_mode(p, auto) ==
    IF auto # p.auto_mode
    THEN IF auto THEN initialize_auto_mode([p EXCEPT !.auto_mode = TRUE])
         ELSE [p EXCEPT !.auto_mode = FALSE]
    ELSE p

pid_enable(p) ==
    IF ~p.enabled THEN initialize_auto_mode([p EXCEPT !.enabled = TRUE]) ELSE p

pid_disable(p) == [p EXCEPT !.enabled = FALSE]

\* Variant: the integral is reset by any change of the setpoint
pid_set_setpoint_always_reset(p, sp) ==
    IF sp # p.setpoint
    THEN [p EXCEPT !.setpoint = sp, !.integral = 0]
    ELSE [p EXCEPT !.setpoint = sp]

\* PIDController.set_setpoint: integral reset when the change exceeds 5 C
pid_set_setpoint(p, sp) ==
    IF Abs(sp - p.setpoint) > 50
    THEN [p EXCEPT !.setpoint = sp, !.integral = 0]
    ELSE [p EXCEPT !.setpoint = sp]

PushError(h, e) ==
    IF Len(h) + 1 > max_error_history THEN Tail(Append(h, e)) ELSE Append(h, e)

\* Variant: only the upper output limit is applied
clamp_output_upper_only(p, u) == Min2(p.output_max, u)

\* compute(): output = max(output_min, min(output_max, output))
clamp_output(p, u) == Clamp(p.output_min, p.output_max, u)

\* The body of compute() after the guards, for a time delta dt (ms)
pid_step(p, pv, dt) ==
    LET error == p.setpoint - pv
        proportional == Quot(p.kp * error, 100)
        integral == Clamp(p.integral_min, p.integral_max,
                          p.integral + Quot(p.ki * error * dt, 100000))
        derivative_raw == Quot((error - p.last_error) * 1000, dt)
        filtered_derivative ==
            IF dt > 0
            THEN IF p.error_history # <<>>
                 THEN Quot(p.derivative_filter * derivative_raw
                             + (100 - p.derivative_filter) * p.derivative, 100)
                 ELSE derivative_raw
            ELSE p.derivative
        derivative == IF dt > 0 THEN Quot(p.kd * filtered_derivative, 100) ELSE 0
        feedforward == Quot(p.output_max + p.output_min, 2)
        output == clamp_output(p, feedforward + proportional + integral
                                    + derivative)
    IN  [p EXCEPT !.latched = TRUE,
                  !.process_variable = pv,
                  !.error = error,
                  !.integral = integral,
                  !.derivative = filtered_derivative,
                  !.output = output,
                  !.last_error = error,
                  !.error_history = PushError(@, error)]

\* compute(process_variable, dt): the guards, then pid_step.  Without an
\* explicit dt the time since last_compute_time is used, and the first call
\* (last_compute_time = 0, here latched = FALSE) only latches the time.
pid_compute(p, pv, dt, explicit) ==
    IF ~p.enabled \/ ~p.auto_mode THEN p
    ELSE IF ~explicit /\ ~p.latched THEN [p EXCEPT !.latched = TRUE]
    ELSE IF dt < p.sample_time THEN p
    ELSE pid_step(p, pv, dt)

\* TRUE when compute() passes the enabled/auto/first-call/sample-time guards
ComputeRuns(p, dt, explicit) ==
    /\ p.enabled
    /\ p.auto_mode
    /\ (explicit \/ p.latched)
    /\ dt >= p.sample_time

\* ------------------------------------------------------------------------
\* Servo Actuator (pi_native/hardware/servo_controller.py)
\* ------------------------------------------------------------------------
\* set_position_percent: the clamped target
servo_target(percent) == Clamp(0, 1000, percent)

\* _percent_to_pulse_width, int() of a positive number
percent_to_pulse_width(percent) ==
    min_pulse_width
        + (Clamp(0, 1000, percent) * (max_pulse_width - min_pulse_width))
              \div 1000

\* Variant: the pass goes to the target in one step
new_position_unlimited(current, target) ==
    IF Abs(current - target) > position_tolerance
    THEN target
    ELSE current

\* One pass of _position_control_loop from the positions it read
new_position(current, target) ==
    IF Abs(current - target) > position_tolerance
    THEN IF target > current
         THEN current + Min2(MaxStep, target - current)
         ELSE current - Min2(MaxStep, current - target)
    ELSE current

\* ------------------------------------------------------------------------
\* State
\* ------------------------------------------------------------------------
VARIABLES
    safety,       \* SafetyLimits the Engine and the Monitor were built with
    mon,          \* TemperatureMonitor: safety_shutdown, pit probe, offset_c
    pid,          \* PIDController: state, gains, limits, mode flags
    servo,        \* ServoController: _target_position, _current_position
    state,        \* EggBotController.state (ControllerState snapshot)
    engine_lock,  \* holder of EggBotController._lock
    mon_lock,     \* holder of TemperatureMonitor._lock
    spc,          \* sampler thread position
    cpc,          \* control thread position
    ctl,          \* control thread locals
    mpc,          \* motion thread position
    mot,          \* motion thread locals
    callers,      \* command callers: operation, position, argument, result
    alerts,       \* alert levels raised by the latest sampler tick
    budget,       \* steps taken so far, against the bounds of the model
    hist,         \* history of the run used to state the properties
    eng,          \* EggBotController fields outside the snapshot
    pigpiod,      \* the pigpio daemon as the Actuator finds it: "up", "down"
    lk            \* the four component locks: holder, and what each thread
                  \* has left to acquire and release in its current pass

vars == <<pigpiod, lk, eng, safety, mon, pid, servo, state, engine_lock, mon_lock, spc, cpc,
          ctl, mpc, mot, callers, alerts, budget, hist>>

\* ControllerState() defaults
InitState ==
    [pit_temp_c |-> NoTemp, setpoint_c |-> 1100, damper_percent |-> 0,
     control_mode |-> "manual", pid_output |-> 0, pid_error |-> 0,
     safety_shutdown |-> FALSE, connected_probes |-> {}]

InitCaller ==
    [op |-> "none", pc |-> "idle", arg |-> 0, result |-> "none", ret |-> 0]

\* tripped: the CRITICAL alert handler has latched the shutdown in the
\*   snapshot, no reset_safety_shutdown call was in progress at that moment
\*   and none has been made since;
\* closed: emergency shutdown has commanded the servo to 0 and
\*   reset_safety_shutdown has not been called since;  trip_loops: control-loop passes completed since the
\*   latest emergency shutdown finished, when no command ran since the
\*   CRITICAL alert (-1: not counting, -3: the shutdown is in progress,
\*   -2: a pass that began before the shutdown finished is still running);
\* converted, sample_valid: the latest sample as _process_reading returned it;
\* last_set: the setpoint of the latest set_setpoint call that returned
\*   normally (initially the setpoint the constructor pushed);
\* invalid_run: invalid samples processed since the latest valid one;
\* missed_run: sampler passes in a row in which the pit channel's read failed;
\* applied: PID outputs written to the servo since the latest command step
\*   (2: two or more);
\* moves: passes of the motion thread begun since set_damper_percent last
\*   wrote the servo target (counted up to MaxMoves);
\* started_name: the filename of the latest start_csv_logging that succeeded;
\* returned_path: the value the latest stop_csv_logging returned;
\* stopped: stop() has returned;
\* voltage: the raw sample (mV) of the last processed reading;
\* last_valid: the temperature stored for the latest valid sample;
\* calibrated: calibrate_probe has set the offset and no sample has been
\* processed since;
\* pwm_result: how the latest _set_pwm call of the motion thread ended
\*   ("ok": the pulse was written, "failed": it returned False);
\* pwm_failures: _set_pwm calls of the motion thread in a row that returned
\*   False, up to and including the latest call (0 after a call that
\*   returned True; counted up to MaxFailures);
\* fresh: when the control thread last read the temperatures, the pit probe's
\*   latest sample was valid and not older than probe_timeout
InitHist ==
    [tripped |-> FALSE, closed |-> FALSE, trip_loops |-> -1,
     converted |-> 0, sample_valid |-> FALSE, last_set |-> 1100,
     invalid_run |-> 0, missed_run |-> 0, fresh |-> FALSE, applied |-> 0,
     moves |-> 0, stopped |-> FALSE, voltage |-> -1, calibrated |-> FALSE,
     last_valid |-> NoTemp,
     started_name |-> <<>>, returned_path |-> <<>>,
     pwm_result |-> "none", pwm_failures |-> 0]

\* EggBotController.__init__ and start(): the running flag (the three
\* running flags are TRUE: the controller has been started), telemetry
\* storage and CSV logging fields.
\* A path is a sequence of name parts, <<>> stands for None; open_files are
\* the files opened and not yet closed; csv_rows counts the rows written.
InitEng ==
    [running |-> TRUE, telemetry_data |-> <<>>,
     csv_logging_enabled |-> FALSE, csv_file_path |-> <<>>,
     csv_file_handle |-> <<>>, csv_writer |-> FALSE,
     csv_start_time |-> FALSE, open_files |-> {}, csv_rows |-> 0]

\* threading.Lock() of the Engine, the Monitor, the Actuator (servo
\* controller) and the Regulator (PID controller)
Locks == {"engine", "monitor", "actuator", "regulator"}

\* Command callers of the locking model
MaxLockCallers == 1

\* The three worker threads and the command callers
Threads ==
    {<<"sampler", 0>>, <<"control", 0>>, <<"motion", 0>>}
        \cup {<<"caller", i>> : i \in 1..MaxLockCallers}

NoThread == <<"free", 0>>

\* Every lock free, every thread at its loop head or outside a command
InitLk ==
    [holder |-> [l \in Locks |-> NoThread],
     todo |-> [t \in Threads |-> <<>>]]

\* ticks, calls, logs: the sampler passes, the commands and the telemetry
\* and CSV writes the run may take; count_motions: whether the passes of the
\* motion thread are counted against MaxMotion
InitLimited(ncallers, ticks, calls, logs, count_motions) ==
    /\ lk = InitLk
    /\ eng = InitEng
    /\ mon = [safety_shutdown |-> FALSE, offset_c |-> 0, pit |-> InitProbe,
              running |-> TRUE]
    /\ servo = [target_position |-> 0, current_position |-> 0,
                running |-> TRUE, simulate |-> FALSE, pi |-> "connected",
                last_pulse_width |-> 0, connection_attempts |-> 0,
                connection_lost_count |-> 0]
    /\ pigpiod = "up"
    /\ state = InitState
    /\ engine_lock = "free"
    /\ mon_lock = "free"
    /\ spc = "idle"
    /\ cpc = "idle"
    /\ ctl = [temps |-> NoTemp, pid_output |-> 0, ran_once |-> FALSE]
    /\ mpc = "idle"
    /\ mot = [new_position |-> 0, after |-> "none"]
    /\ callers = [i \in 1..ncallers |-> InitCaller]
    /\ alerts = <<>>
    /\ budget = [ticks |-> 0, loops |-> 0, calls |-> 0, motions |-> 0,
                 computes |-> 0, ops |-> 0, logs |-> 0, tick_limit |-> ticks,
                 call_limit |-> calls, log_limit |-> logs,
                 move_limit |-> MaxMoves,
                 count_motions |-> count_motions]
    /\ hist = InitHist

InitBounded(ncallers, ticks, calls, count_motions) ==
    InitLimited(ncallers, ticks, calls, MaxLogs, count_motions)

InitCommon(ncallers) == InitBounded(ncallers, MaxTicks, MaxCalls, TRUE)

\* ------------------------------------------------------------------------
\* Sampler thread: TemperatureMonitor._monitor_loop
\* ------------------------------------------------------------------------
\* _emergency_shutdown, the part under the Engine lock
emergency_state(st) ==
    [st EXCEPT !.safety_shutdown = TRUE, !.control_mode = "manual"]

\* The history after a processed sample
Sampled(h, voltage, reading, probe) ==
    [h EXCEPT !.voltage = voltage,
              !.last_valid = IF reading.is_valid
                             THEN probe.temperature_c ELSE @,
              !.calibrated = FALSE,
              !.converted = reading.temperature_c,
              !.sample_valid = reading.is_valid,
              !.invalid_run = IF reading.is_valid THEN 0 ELSE @ + 1,
              !.missed_run = 0]

\* One pass of the loop up to the CRITICAL alert callback (or to the end of
\* the pass when no CRITICAL alert is raised).  The monitor lock is held
\* from _update_probe_status to the end of _check_safety.
SamplerTick(voltage, time_diff) ==
    /\ spc = "idle"
    /\ mon.running
    /\ mon_lock = "free"
    /\ budget.ticks < budget.tick_limit
    /\ LET reading == process_reading(voltage, mon.offset_c)
           probe == update_probe_status(mon.pit, reading, time_diff)
           raised == StatusAlerts(mon.pit, reading)
                        \o CheckSafetyAlerts(probe, safety)
       IN  /\ mon' = [mon EXCEPT !.pit = probe]
           /\ IF CriticalTemp(probe, safety)
              THEN /\ alerts' = StatusAlerts(mon.pit, reading) \o <<"CRITICAL">>
                   /\ spc' = "es_lock"
                   /\ mon_lock' = "sampler"
                   /\ hist' = [Sampled(hist, voltage, reading, probe) EXCEPT !.trip_loops = -3]
              ELSE /\ alerts' = raised
                   /\ spc' = "idle"
                   /\ mon_lock' = "free"
                   /\ hist' = Sampled(hist, voltage, reading, probe)
    /\ budget' = [budget EXCEPT !.ticks = @ + 1]
    /\ UNCHANGED <<pigpiod, lk, eng, safety, pid, servo, state, engine_lock, cpc, ctl, mpc,
                   mot, callers>>

\* _handle_temperature_alert("CRITICAL") -> _emergency_shutdown: with self._lock
SamplerShutdownLock ==
    /\ spc = "es_lock"
    /\ engine_lock = "free"
    /\ state' = emergency_state(state)
    /\ spc' = "es_servo"
    /\ hist' = [hist EXCEPT !.tripped =
                   \A i \in DOMAIN callers : callers[i].pc # "rs_lock"]
    /\ UNCHANGED <<pigpiod, lk, eng, safety, mon, pid, servo, engine_lock, mon_lock, cpc, ctl,
                   mpc, mot, callers, alerts, budget>>

\* _emergency_shutdown: servo_controller.set_position_percent(0)
SamplerShutdownServo ==
    /\ spc = "es_servo"
    /\ servo' = [servo EXCEPT !.target_position = servo_target(0)]
    /\ spc' = "es_pid"
    /\ hist' = [hist EXCEPT !.closed = TRUE]
    /\ UNCHANGED <<pigpiod, lk, eng, safety, mon, pid, state, engine_lock, mon_lock, cpc, ctl,
                   mpc, mot, callers, alerts, budget>>

\* _emergency_shutdown: pid_controller.disable()
SamplerShutdownPid ==
    /\ spc = "es_pid"
    /\ pid' = pid_disable(pid)
    /\ spc' = "set_flag"
    /\ hist' = hist
    /\ UNCHANGED <<pigpiod, lk, eng, safety, mon, servo, state, engine_lock, mon_lock, cpc, ctl,
                   mpc, mot, callers, alerts, budget>>

\* _check_safety after the callback returned: self.safety_shutdown = True,
\* the rate-of-change check, and the release of the monitor lock
SamplerSetFlag ==
    /\ spc = "set_flag"
    /\ mon' = [mon EXCEPT !.safety_shutdown = TRUE]
    /\ alerts' = alerts \o (IF RateWarning(mon.pit, safety)
                            THEN <<"WARNING">> ELSE <<>>)
    /\ mon_lock' = "free"
    /\ spc' = "idle"
    /\ hist' = [hist EXCEPT !.trip_loops =
                   IF \/ hist.trip_loops # -3
                      \/ \E i \in DOMAIN callers : callers[i].pc # "idle"
                   THEN -1
                   ELSE IF cpc = "idle" THEN 0 ELSE -2]
    /\ UNCHANGED <<pigpiod, lk, eng, safety, pid, servo, state, engine_lock, cpc, ctl, mpc,
                   mot, callers, budget>>

\* ------------------------------------------------------------------------
\* Control thread: EggBotController._control_loop
\* ------------------------------------------------------------------------
\* _update_temperatures: temperature_monitor.get_current_temperatures()
CtlGetTemps ==
    /\ cpc = "idle"
    /\ eng.running
    /\ mon_lock = "free"
    /\ budget.loops < MaxLoops
    /\ ctl' = [ctl EXCEPT !.temps = current_pit_temperature(mon.pit)]
    /\ cpc' = "update"
    /\ budget' = [budget EXCEPT !.loops = @ + 1]
    /\ hist' = [hist EXCEPT !.fresh = /\ mon.pit.has_reading
                                      /\ mon.pit.is_valid
                                      /\ mon.pit.since_update
                                            <= safety.probe_timeout]
    /\ UNCHANGED <<pigpiod, lk, eng, safety, mon, pid, servo, state, engine_lock, mon_lock,
                   spc, mpc, mot, callers, alerts>>

\* _update_temperatures: the probes whose temperature is not None
connected_probes(temps) == IF temps # NoTemp THEN {"pit_probe"} ELSE {}

\* _update_temperatures, the part under the Engine lock
update_temperatures(st, temps, monitor_shutdown) ==
    [st EXCEPT !.pit_temp_c = temps,
               !.connected_probes = connected_probes(temps),
               !.safety_shutdown = monitor_shutdown]

\* End of one pass of the control loop
LoopDone(h) ==
    [h EXCEPT !.trip_loops = IF @ >= 0 THEN Min2(@ + 1, 2)
                             ELSE IF @ = -2 THEN 0 ELSE @]

\* run: whether control_loop_interval has elapsed since the last PID pass
\* (always on the first pass, last_control_time being 0)
CtlUpdateTemperatures(run) ==
    /\ cpc = "update"
    /\ engine_lock = "free"
    /\ (~ctl.ran_once => run)
    /\ state' = update_temperatures(state, ctl.temps, mon.safety_shutdown)
    /\ cpc' = IF run THEN "pid" ELSE "idle"
    /\ ctl' = [ctl EXCEPT !.ran_once = TRUE]
    /\ hist' = IF run THEN hist ELSE LoopDone(hist)
    /\ UNCHANGED <<pigpiod, lk, eng, safety, mon, pid, servo, engine_lock, mon_lock, spc, mpc,
                   mot, callers, alerts, budget>>

\* Variant: the guard does not test control_mode
PidGuardAnyMode(st) == ~st.safety_shutdown /\ st.pit_temp_c # NoTemp

\* The guard of _run_pid_control
PidGuard(st) ==
    /\ st.control_mode = "automatic"
    /\ ~st.safety_shutdown
    /\ st.pit_temp_c # NoTemp

\* _run_pid_control: take the Engine lock and test the guard
CtlPidGuard ==
    /\ cpc = "pid"
    /\ engine_lock = "free"
    /\ IF PidGuard(state)
       THEN /\ engine_lock' = "control"
            /\ cpc' = "compute"
            /\ hist' = hist
       ELSE /\ engine_lock' = "free"
            /\ cpc' = "idle"
            /\ hist' = LoopDone(hist)
    /\ UNCHANGED <<pigpiod, lk, eng, safety, mon, pid, servo, state, mon_lock, spc, ctl, mpc,
                   mot, callers, alerts, budget>>

\* _run_pid_control: pid_controller.compute(self.state.pit_temp_c)
CtlPidCompute(dt) ==
    /\ cpc = "compute"
    /\ pid' = pid_compute(pid, state.pit_temp_c, dt, FALSE)
    /\ ctl' = [ctl EXCEPT !.pid_output = pid'.output]
    /\ cpc' = "servo"
    /\ budget' = [budget EXCEPT !.computes =
                      IF ComputeRuns(pid, dt, FALSE) THEN @ + 1 ELSE @]
    /\ UNCHANGED <<pigpiod, lk, eng, safety, mon, servo, state, engine_lock, mon_lock, spc, mpc,
                   mot, callers, alerts, hist>>

\* _run_pid_control: servo_controller.set_position_percent(pid_output)
CtlPidServo ==
    /\ cpc = "servo"
    /\ servo' = [servo EXCEPT !.target_position = servo_target(ctl.pid_output)]
    /\ cpc' = "store"
    /\ hist' = [hist EXCEPT !.applied = Min2(@ + 1, 2)]
    /\ UNCHANGED <<pigpiod, lk, eng, safety, mon, pid, state, engine_lock, mon_lock, spc, ctl,
                   mpc, mot, callers, alerts, budget>>

\* _run_pid_control: copy output, error and servo position to the snapshot
\* and release the Engine lock
CtlPidStore ==
    /\ cpc = "store"
    /\ state' = [state EXCEPT !.pid_output = ctl.pid_output,
                              !.pid_error = pid.error,
                              !.damper_percent = servo.current_position]
    /\ engine_lock' = "free"
    /\ cpc' = "idle"
    /\ hist' = LoopDone(hist)
    /\ UNCHANGED <<pigpiod, lk, eng, safety, mon, pid, servo, mon_lock, spc, ctl, mpc, mot,
                   callers, alerts, budget>>

\* ------------------------------------------------------------------------
\* Motion thread: ServoController._position_control_loop
\* ------------------------------------------------------------------------
\* Read current and target under the lock, compute the step
MotionRead ==
    /\ mpc = "idle"
    /\ servo.running
    /\ (budget.count_motions => budget.motions < MaxMotion)
    /\ mot' = [mot EXCEPT !.new_position =
                   new_position(servo.current_position, servo.target_position)]
    /\ mpc' = IF Abs(servo.current_position - servo.target_position)
                    > position_tolerance
              THEN "write" ELSE "idle"
    /\ budget' = [budget EXCEPT !.motions =
                      IF budget.count_motions THEN @ + 1 ELSE @]
    /\ hist' = [hist EXCEPT !.moves = Min2(@ + 1, budget.move_limit)]
    /\ UNCHANGED <<pigpiod, lk, eng, safety, mon, pid, servo, state, engine_lock, mon_lock, spc,
                   cpc, ctl, callers, alerts>>

\* Write the new position under the lock
MotionWrite ==
    /\ mpc = "write"
    /\ servo' = [servo EXCEPT !.current_position = mot.new_position]
    /\ mpc' = "idle"
    /\ hist' = hist
    /\ UNCHANGED <<pigpiod, lk, eng, safety, mon, pid, state, engine_lock, mon_lock, spc, cpc,
                   ctl, mot, callers, alerts, budget>>

\* ------------------------------------------------------------------------
\* Command surface of the Engine, called from request-handler threads
\* ------------------------------------------------------------------------
Idle(i) == callers[i].pc = "idle" /\ budget.calls < budget.call_limit

\* A command was issued: the count of calls, and the history
Called == budget' = [budget EXCEPT !.calls = @ + 1]

Touched(h) == [h EXCEPT !.trip_loops = -1, !.applied = 0]

Return(i, op, arg, result, ret) ==
    callers' = [callers EXCEPT ![i] = [op |-> op, pc |-> "idle", arg |-> arg,
                                       result |-> result, ret |-> ret]]

Goto(i, op, arg, pc) ==
    callers' = [callers EXCEPT ![i] = [op |-> op, pc |-> pc, arg |-> arg,
                                       result |-> "none", ret |-> 0]]

Modes == {"manual", "automatic"}

\* set_control_mode, up to the release of the Engine lock
\* Variant: the shutdown test guards the wrong mode
ModeRefusedWrongMode(st, mode) == st.safety_shutdown /\ mode = "manual"

\* TRUE when the call is refused
ModeRefused(st, mode) == st.safety_shutdown /\ mode = "automatic"

CmdSetControlMode(i, mode) ==
    /\ Idle(i)
    /\ engine_lock = "free"
    /\ Called
    /\ hist' = Touched(hist)
    /\ IF mode \notin Modes \/ ModeRefused(state, mode)
       THEN /\ Return(i, "set_control_mode", mode, "error", 0)
            /\ state' = state
       ELSE /\ Goto(i, "set_control_mode", mode, "scm_auto")
            /\ state' = [state EXCEPT !.control_mode = mode]
    /\ UNCHANGED <<pigpiod, lk, eng, safety, mon, pid, servo, engine_lock, mon_lock, spc, cpc,
                   ctl, mpc, mot, alerts>>

\* set_control_mode: pid_controller.set_auto_mode(mode == "automatic")
CmdSetControlModeAuto(i) ==
    /\ callers[i].pc = "scm_auto"
    /\ pid' = pid_set_auto_mode(pid, callers[i].arg = "automatic")
    /\ IF callers[i].arg = "automatic"
       THEN Goto(i, "set_control_mode", callers[i].arg, "scm_enable")
       ELSE Return(i, "set_control_mode", callers[i].arg, "ok", 0)
    /\ hist' = Touched(hist)
    /\ UNCHANGED <<pigpiod, lk, eng, safety, mon, servo, state, engine_lock, mon_lock, spc, cpc,
                   ctl, mpc, mot, alerts, budget>>

\* set_control_mode("automatic"): pid_controller.enable()
CmdSetControlModeEnable(i) ==
    /\ callers[i].pc = "scm_enable"
    /\ pid' = pid_enable(pid)
    /\ Return(i, "set_control_mode", callers[i].arg, "ok", 0)
    /\ hist' = Touched(hist)
    /\ UNCHANGED <<pigpiod, lk, eng, safety, mon, servo, state, engine_lock, mon_lock, spc, cpc,
                   ctl, mpc, mot, alerts, budget>>

\* Variant: the upper clamp is missing
clamp_percent_low_only(percent) == Max2(0, percent)

\* set_damper_percent: percent = max(0, min(100, percent))
clamp_percent(percent) == Clamp(0, 1000, percent)

\* set_damper_percent, up to the release of the Engine lock
manual_damper(st, percent) ==
    [st EXCEPT !.control_mode = "manual", !.damper_percent = percent]

CmdSetDamper(i, percent) ==
    /\ Idle(i)
    /\ engine_lock = "free"
    /\ Called
    /\ state' = manual_damper(state, clamp_percent(percent))
    /\ Goto(i, "set_damper_percent", percent, "sd_servo")
    /\ hist' = Touched(hist)
    /\ UNCHANGED <<pigpiod, lk, eng, safety, mon, pid, servo, engine_lock, mon_lock, spc, cpc,
                   ctl, mpc, mot, alerts>>

\* set_damper_percent: servo_controller.set_position_percent(percent)
CmdSetDamperServo(i) ==
    /\ callers[i].pc = "sd_servo"
    /\ servo' = [servo EXCEPT !.target_position =
                      servo_target(clamp_percent(callers[i].arg))]
    /\ Goto(i, "set_damper_percent", callers[i].arg, "sd_auto")
    /\ hist' = [Touched(hist) EXCEPT !.moves = 0]
    /\ UNCHANGED <<pigpiod, lk, eng, safety, mon, pid, state, engine_lock, mon_lock, spc, cpc,
                   ctl, mpc, mot, alerts, budget>>

\* set_damper_percent: pid_controller.set_auto_mode(False)
CmdSetDamperAuto(i) ==
    /\ callers[i].pc = "sd_auto"
    /\ pid' = pid_set_auto_mode(pid, FALSE)
    /\ Return(i, "set_damper_percent", callers[i].arg, "ok", 0)
    /\ hist' = Touched(hist)
    /\ UNCHANGED <<pigpiod, lk, eng, safety, mon, servo, state, engine_lock, mon_lock, spc, cpc,
                   ctl, mpc, mot, alerts, budget>>

\* reset_safety_shutdown: temperature_monitor.reset_safety_shutdown()
CmdResetSafety(i) ==
    /\ Idle(i)
    /\ Called
    /\ mon' = [mon EXCEPT !.safety_shutdown = FALSE]
    /\ Goto(i, "reset_safety_shutdown", 0, "rs_lock")
    /\ hist' = [Touched(hist) EXCEPT !.tripped = FALSE, !.closed = FALSE]
    /\ UNCHANGED <<pigpiod, lk, eng, safety, pid, servo, state, engine_lock, mon_lock, spc, cpc,
                   ctl, mpc, mot, alerts>>

\* reset_safety_shutdown: the part under the Engine lock
CmdResetSafetyLock(i) ==
    /\ callers[i].pc = "rs_lock"
    /\ engine_lock = "free"
    /\ state' = [state EXCEPT !.safety_shutdown = FALSE]
    /\ Return(i, "reset_safety_shutdown", 0, "ok", 0)
    /\ hist' = Touched(hist)
    /\ UNCHANGED <<pigpiod, lk, eng, safety, mon, pid, servo, engine_lock, mon_lock, spc, cpc,
                   ctl, mpc, mot, alerts, budget>>

\* Variant: the upper limit is not tested
SetpointAboveMin(x) == safety.min_pit_temp <= x

\* set_setpoint: the range check, then the part under the Engine lock
SetpointInRange(x) == safety.min_pit_temp <= x /\ x <= safety.max_pit_temp

CmdSetSetpoint(i, x) ==
    /\ Idle(i)
    /\ engine_lock = "free"
    /\ Called
    /\ IF SetpointInRange(x)
       THEN /\ state' = [state EXCEPT !.setpoint_c = x]
            /\ Goto(i, "set_setpoint", x, "sp_pid")
       ELSE /\ state' = state
            /\ Return(i, "set_setpoint", x, "error", 0)
    /\ hist' = Touched(hist)
    /\ UNCHANGED <<pigpiod, lk, eng, safety, mon, pid, servo, engine_lock, mon_lock, spc, cpc,
                   ctl, mpc, mot, alerts>>

\* set_setpoint: pid_controller.set_setpoint(setpoint_c)
CmdSetSetpointPid(i) ==
    /\ callers[i].pc = "sp_pid"
    /\ pid' = pid_set_setpoint(pid, callers[i].arg)
    /\ Return(i, "set_setpoint", callers[i].arg, "ok", 0)
    /\ hist' = [Touched(hist) EXCEPT !.last_set = callers[i].arg]
    /\ UNCHANGED <<pigpiod, lk, eng, safety, mon, servo, state, engine_lock, mon_lock, spc, cpc,
                   ctl, mpc, mot, alerts, budget>>

\* get_setpoint
CmdGetSetpoint(i) ==
    /\ Idle(i)
    /\ engine_lock = "free"
    /\ Called
    /\ Return(i, "get_setpoint", 0, "ok", state.setpoint_c)
    /\ hist' = Touched(hist)
    /\ UNCHANGED <<pigpiod, lk, eng, safety, mon, pid, servo, state, engine_lock, mon_lock, spc,
                   cpc, ctl, mpc, mot, alerts>>

\* calibrate_probe("pit_probe", actual_temperature)
CmdCalibrateProbe(i, actual) ==
    /\ Idle(i)
    /\ Called
    /\ IF mon.pit.has_reading /\ mon.pit.is_valid
       THEN /\ mon' = [mon EXCEPT !.offset_c = actual - mon.pit.temperature_c]
            /\ Return(i, "calibrate_probe", actual, "ok", 0)
            /\ hist' = [Touched(hist) EXCEPT !.calibrated = TRUE]
       ELSE /\ mon' = mon
            /\ Return(i, "calibrate_probe", actual, "error", 0)
            /\ hist' = Touched(hist)
    /\ UNCHANGED <<pigpiod, lk, eng, safety, pid, servo, state, engine_lock, mon_lock, spc, cpc,
                   ctl, mpc, mot, alerts>>

\* ------------------------------------------------------------------------
\* The Engine with its three threads and one command caller
\* ------------------------------------------------------------------------
\* 60.5 C and 170.1 C at offset 0, and a failed conversion
EngineVoltages == {0, 1000, 3000}

\* Time between two samples: the nominal period, or a pass delayed by the
\* error-recovery sleep
SampleDts == {250, 1250}

\* Time between two compute() calls
ComputeDts == {1000, 2000}

DamperInputs == {-50, 0, 400, 1200}

InitEngine ==
    /\ safety \in SafetyConfigs
    /\ pid = InitPid(PresetConservative)
    /\ InitCommon(1)

SamplerNext(voltages, dts) ==
    \/ \E v \in voltages, dt \in dts : SamplerTick(v, dt)
    \/ SamplerShutdownLock
    \/ SamplerShutdownServo
    \/ SamplerShutdownPid
    \/ SamplerSetFlag

ControlNext ==
    \/ CtlGetTemps
    \/ \E run \in BOOLEAN : CtlUpdateTemperatures(run)
    \/ CtlPidGuard
    \/ \E dt \in ComputeDts : CtlPidCompute(dt)
    \/ CtlPidServo
    \/ CtlPidStore

MotionNext ==
    \/ MotionRead
    \/ MotionWrite

ModeCommands ==
    \E i \in DOMAIN callers :
        \/ \E m \in Modes : CmdSetControlMode(i, m)
        \/ CmdSetControlModeAuto(i)
        \/ CmdSetControlModeEnable(i)
        \/ \E p \in DamperInputs : CmdSetDamper(i, p)
        \/ CmdSetDamperServo(i)
        \/ CmdSetDamperAuto(i)
        \/ CmdResetSafety(i)
        \/ CmdResetSafetyLock(i)

NextEngine ==
    \/ SamplerNext(EngineVoltages, {update_interval})
    \/ ControlNext
    \/ ModeCommands

SpecEngine == InitEngine /\ [][NextEngine]_vars

\* ------------------------------------------------------------------------
\* Properties of the safety shutdown
\* ------------------------------------------------------------------------
\* C1: in every reachable state, control_mode = automatic implies
\* safety_shutdown = false in the snapshot.
C1_AutomaticImpliesNoShutdown ==
    state.control_mode = "automatic" => ~state.safety_shutdown

\* A set_control_mode("automatic") call is accepted in this step
AutomaticAccepted ==
    \E i \in DOMAIN callers :
        /\ callers[i].pc = "idle"
        /\ callers'[i].pc = "scm_auto"
        /\ callers'[i].arg = "automatic"

\* C2: from the safety trip until reset_safety_shutdown is called, no
\* set_control_mode("automatic") call succeeds.
C2_NoAutomaticWhileTripped ==
    [][hist.tripped => ~AutomaticAccepted]_vars

\* A set_control_mode(arg) call by caller i passes the Engine lock in this step
ModeCallStep(i) ==
    /\ callers[i].pc = "idle"
    /\ callers'[i].op = "set_control_mode"
    /\ budget'.calls = budget.calls + 1

\* C3: set_control_mode("automatic") while the snapshot's safety_shutdown is
\* true is refused with an error and changes neither control_mode nor the
\* regulator; with safety_shutdown false it sets control_mode = automatic,
\* then puts the regulator in auto mode and enables it; the reset clears the
\* flag and leaves control_mode as it was.
C3_ModeConflict ==
    [][\A i \in DOMAIN callers :
        /\ (ModeCallStep(i) /\ callers'[i].arg = "automatic"
              /\ state.safety_shutdown) =>
                /\ callers'[i].result = "error"
                /\ callers'[i].pc = "idle"
                /\ state' = state
                /\ pid' = pid
        /\ (ModeCallStep(i) /\ callers'[i].arg = "automatic"
              /\ ~state.safety_shutdown) =>
                /\ state'.control_mode = "automatic"
                /\ callers'[i].pc = "scm_auto"
        /\ (callers[i].pc = "scm_auto" /\ callers'[i].pc = "scm_enable") =>
                pid'.auto_mode
        /\ (callers[i].pc = "scm_enable" /\ callers'[i].pc = "idle") =>
                /\ pid'.enabled
                /\ callers'[i].result = "ok"
        /\ (callers[i].pc = "rs_lock" /\ callers'[i].pc = "idle") =>
                /\ ~state'.safety_shutdown
                /\ state'.control_mode = state.control_mode
                /\ pid' = pid]_vars

\* A refused set_control_mode("automatic") during a shutdown
C3_Witness ==
    /\ callers[1].op = "set_control_mode"
    /\ callers[1].pc = "idle"
    /\ callers[1].result = "error"
    /\ state.safety_shutdown
    /\ hist.tripped

\* C4: once emergency shutdown has set the servo target to 0, and while the
\* snapshot's safety_shutdown is true, no step moves the servo target away
\* from 0 until reset_safety_shutdown is called.
C4_DamperStaysClosed ==
    [][(hist.closed /\ hist'.closed /\ state.safety_shutdown
          /\ servo.target_position = 0)
        => servo'.target_position = 0]_vars

\* C5: one control-loop pass after a safety trip the snapshot has
\* safety_shutdown = true, control_mode = manual and damper_percent = 0.
C5_StatusAfterTrip ==
    hist.trip_loops >= 1 =>
        /\ state.safety_shutdown
        /\ state.control_mode = "manual"
        /\ state.damper_percent = 0

\* ------------------------------------------------------------------------
\* The Monitor alone: sampler passes over every tabulated voltage, and
\* calibration of the pit probe
\* ------------------------------------------------------------------------
CalibrationInputs == {250, 4050}

InitMonitor ==
    /\ safety \in SafetyConfigs
    /\ pid = InitPid(PresetConservative)
    /\ InitCommon(1)

NextMonitor ==
    \/ SamplerNext(Voltages, SampleDts)
    \/ \E i \in DOMAIN callers, a \in CalibrationInputs : CmdCalibrateProbe(i, a)

SpecMonitor == InitMonitor /\ [][NextMonitor]_vars

Range(f) == {f[x] : x \in DOMAIN f}

\* C6: a sampler pass whose pit sample converts to a temperature above
\* max_pit_temp raises a CRITICAL alert and enters emergency shutdown in
\* that same pass.
C6_CriticalOnOverTemp ==
    [][(/\ spc = "idle"
        /\ budget'.ticks = budget.ticks + 1
        /\ hist'.converted > safety.max_pit_temp)
       => (/\ "CRITICAL" \in Range(alerts')
           /\ spc' = "es_lock")]_vars

\* ------------------------------------------------------------------------
\* Damper positions: control thread, motion thread and manual commands
\* ------------------------------------------------------------------------
InitDamper ==
    /\ safety = DefaultSafety
    /\ pid = InitPid(PresetConservative)
    /\ InitCommon(1)

DamperCommands ==
    \E i \in DOMAIN callers :
        \/ \E m \in Modes : CmdSetControlMode(i, m)
        \/ CmdSetControlModeAuto(i)
        \/ CmdSetControlModeEnable(i)
        \/ \E p \in DamperInputs : CmdSetDamper(i, p)
        \/ CmdSetDamperServo(i)
        \/ CmdSetDamperAuto(i)

NextDamper ==
    \/ \E v \in {1000, 3000} : SamplerTick(v, update_interval)
    \/ ControlNext
    \/ MotionNext
    \/ DamperCommands

SpecDamper == InitDamper /\ [][NextDamper]_vars

InEnvelope(p) == 0 <= p /\ p <= 1000

\* C7: the servo's target and current positions and the snapshot's
\* damper_percent always lie in [0, 100].
C7_DamperEnvelope ==
    /\ InEnvelope(servo.target_position)
    /\ InEnvelope(servo.current_position)
    /\ InEnvelope(state.damper_percent)

\* The PID has computed, the motion thread has moved the servo and the
\* control thread has copied the position to the snapshot
C7_Witness ==
    /\ budget.computes >= 1
    /\ servo.current_position > 0
    /\ state.damper_percent = servo.current_position
    /\ state.control_mode = "automatic"

MaxRegulatorOps == 4

ProcessValues == {1000, 1150, 5000}

RegulatorDts == {500, 2000, 10000}

RegulatorSetpoints == {1140, 4000}

\* Gains (kp, ki, kd) in hundredths, one triple with a negative gain
GainInputs == {<<500, 40, 250>>, <<-100, 0, 1000>>}

RegulatorOp == /\ budget.ops < MaxRegulatorOps
               /\ UNCHANGED <<pigpiod, lk, eng, safety, mon, servo, state, engine_lock, mon_lock,
                              spc, cpc, mpc, mot, callers, alerts, hist>>

\* compute(process_variable, dt); the call and its position in the run are
\* recorded in the caller's record (arg: 1 when dt was passed, 0 when the
\* call measured it from last_compute_time)
RegulatorCompute(pv, dt, explicit) ==
    /\ budget.ops < MaxRegulatorOps
    /\ callers' = [callers EXCEPT ![1] =
                       [op |-> "compute", pc |-> "idle",
                        arg |-> IF explicit THEN 1 ELSE 0,
                        result |-> "ok", ret |-> budget.ops + 1]]
    /\ UNCHANGED <<pigpiod, lk, eng, safety, mon, servo, state, engine_lock, mon_lock,
                   spc, cpc, mpc, mot, alerts, hist>>
    /\ pid' = pid_compute(pid, pv, dt, explicit)
    /\ ctl' = [ctl EXCEPT !.pid_output = pid'.output]
    /\ budget' = [budget EXCEPT !.ops = @ + 1,
                                !.computes = IF ComputeRuns(pid, dt, explicit)
                                             THEN @ + 1 ELSE @]

RegulatorSetSetpoint(sp) ==
    /\ RegulatorOp
    /\ pid' = pid_set_setpoint(pid, sp)
    /\ budget' = [budget EXCEPT !.ops = @ + 1]
    /\ ctl' = ctl

\* set_gains(kp, ki, kd)
RegulatorSetGains(g) ==
    /\ RegulatorOp
    /\ pid' = [pid EXCEPT !.kp = g[1], !.ki = g[2], !.kd = g[3]]
    /\ budget' = [budget EXCEPT !.ops = @ + 1]
    /\ ctl' = ctl

\* set_auto_mode(auto); the call and its position in the run are recorded
\* in the caller's record (arg: 1 for True, 0 for False)
RegulatorSetAutoMode(auto) ==
    /\ budget.ops < MaxRegulatorOps
    /\ pid' = pid_set_auto_mode(pid, auto)
    /\ budget' = [budget EXCEPT !.ops = @ + 1]
    /\ callers' = [callers EXCEPT ![1] =
                       [op |-> "set_auto_mode", pc |-> "idle",
                        arg |-> IF auto THEN 1 ELSE 0,
                        result |-> "ok", ret |-> budget.ops + 1]]
    /\ UNCHANGED <<pigpiod, lk, eng, safety, mon, servo, state, engine_lock, mon_lock,
                   spc, cpc, ctl, mpc, mot, alerts, hist>>

\* enable(); the call and its position in the run are recorded in the
\* caller's record
RegulatorEnable ==
    /\ budget.ops < MaxRegulatorOps
    /\ callers' = [callers EXCEPT ![1] =
                       [op |-> "enable", pc |-> "idle", arg |-> 0,
                        result |-> "ok", ret |-> budget.ops + 1]]
    /\ UNCHANGED <<pigpiod, lk, eng, safety, mon, servo, state, engine_lock, mon_lock,
                   spc, cpc, mpc, mot, alerts, hist>>
    /\ ~pid.enabled
    /\ pid' = pid_enable(pid)
    /\ budget' = [budget EXCEPT !.ops = @ + 1]
    /\ ctl' = ctl

RegulatorDisable ==
    /\ RegulatorOp
    /\ pid.enabled
    /\ pid' = pid_disable(pid)
    /\ budget' = [budget EXCEPT !.ops = @ + 1]
    /\ ctl' = ctl

InitRegulator ==
    /\ safety = DefaultSafety
    /\ \E c \in PIDConfigs : pid = InitPid(c)
    /\ InitCommon(1)

NextRegulator ==
    \/ \E pv \in ProcessValues, dt \in RegulatorDts, e \in BOOLEAN :
           RegulatorCompute(pv, dt, e)
    \/ \E sp \in RegulatorSetpoints : RegulatorSetSetpoint(sp)
    \/ \E g \in GainInputs : RegulatorSetGains(g)
    \/ \E a \in BOOLEAN : RegulatorSetAutoMode(a)
    \/ RegulatorEnable
    \/ RegulatorDisable

SpecRegulator == InitRegulator /\ [][NextRegulator]_vars

\* C8: after every PID computation that passes the guards, output lies in
\* [output_min, output_max], integral in [integral_min, integral_max], and
\* the returned value is the stored output.
C8_PidLimits ==
    [][budget'.computes = budget.computes + 1 =>
        /\ pid'.output_min <= pid'.output
        /\ pid'.output <= pid'.output_max
        /\ pid'.integral_min <= pid'.integral
        /\ pid'.integral <= pid'.integral_max
        /\ ctl'.pid_output = pid'.output]_vars

\* A computation in which both clamps acted at the lower limit
C8_Witness ==
    /\ budget.computes >= 1
    /\ pid.process_variable = 5000
    /\ pid.integral = pid.integral_min
    /\ pid.output = pid.output_min

\* ------------------------------------------------------------------------
\* The setpoint commands, with one or two concurrent callers
\* ------------------------------------------------------------------------
\* 40 C (below the range), 110 C, 113 C, 130 C, 450 C (above the range)
SetpointInputs == {400, 1100, 1130, 1300, 4500}

\* The regulator as constructed, or after one computation at 100 C
InitSetpoint ==
    /\ safety = DefaultSafety
    /\ pid \in {InitPid(PresetConservative),
                pid_step(InitPid(PresetConservative), 1000, 2000)}
    /\ \E n \in {1, 2} : InitCommon(n)

NextSetpoint ==
    \E i \in DOMAIN callers :
        \/ \E x \in SetpointInputs : CmdSetSetpoint(i, x)
        \/ CmdSetSetpointPid(i)
        \/ CmdGetSetpoint(i)

SpecSetpoint == InitSetpoint /\ [][NextSetpoint]_vars

\* Caller i returns from op in this step
Returns(i, op) ==
    /\ callers'[i] # callers[i]
    /\ callers'[i].pc = "idle"
    /\ callers'[i].op = op

\* x lies in [min_pit_temp, max_pit_temp]
WithinPitLimits(x) == x >= safety.min_pit_temp /\ x <= safety.max_pit_temp

\* C9: with a single caller, set_setpoint(x) for x in
\* [min_pit_temp, max_pit_temp] leaves the snapshot setpoint and the
\* regulator setpoint at x and a following get_setpoint returns x; for x
\* outside the range set_setpoint fails and changes neither the snapshot nor
\* the regulator (setpoint and integral included).
C9_SetpointRoundTrip ==
    [][\A i \in DOMAIN callers :
        /\ (Returns(i, "set_setpoint") /\ ~WithinPitLimits(callers'[i].arg)) =>
                /\ callers'[i].result = "error"
                /\ state' = state
                /\ pid' = pid
        /\ (Returns(i, "set_setpoint") /\ WithinPitLimits(callers'[i].arg)
              /\ DOMAIN callers = {1}) =>
                /\ callers'[i].result = "ok"
                /\ state'.setpoint_c = callers'[i].arg
                /\ pid'.setpoint = callers'[i].arg
        /\ (Returns(i, "get_setpoint") /\ DOMAIN callers = {1}) =>
                /\ callers'[i].ret = hist.last_set
                /\ callers'[i].ret = pid.setpoint]_vars

\* A get_setpoint that follows an accepted set_setpoint(130)
C9_Witness ==
    /\ DOMAIN callers = {1}
    /\ callers[1].op = "get_setpoint"
    /\ callers[1].ret = 1300
    /\ hist.last_set = 1300

\* C10: once all concurrent set_setpoint calls have returned, the snapshot
\* setpoint equals the regulator's setpoint.
C10_SetpointsAgree ==
    (\A i \in DOMAIN callers : callers[i].pc = "idle")
        => state.setpoint_c = pid.setpoint

\* ------------------------------------------------------------------------
\* Telemetry ring: _log_telemetry, clear_telemetry
\* ------------------------------------------------------------------------
\* max_telemetry_points, scaled down from the 7200 of the constructor
max_telemetry_points == 3

\* The record _log_telemetry builds from the snapshot; the timestamp is the
\* number of the append
data_point(st, now) ==
    [timestamp |-> now, pit_temp_c |-> st.pit_temp_c,
     setpoint_c |-> st.setpoint_c, damper_percent |-> st.damper_percent,
     pid_output |-> st.pid_output, pid_error |-> st.pid_error,
     control_mode |-> st.control_mode, safety_shutdown |-> st.safety_shutdown]

\* Variant: the newest records are dropped instead of the oldest
limit_telemetry_keep_oldest(data) ==
    IF Len(data) > max_telemetry_points
    THEN SubSeq(data, 1, max_telemetry_points)
    ELSE data

\* telemetry_data[-max_telemetry_points:] when the list is too long
limit_telemetry(data) ==
    IF Len(data) > max_telemetry_points
    THEN SubSeq(data, Len(data) - max_telemetry_points + 1, Len(data))
    ELSE data

\* _log_telemetry, under the Engine lock
LogTelemetry ==
    /\ cpc = "idle"
    /\ engine_lock = "free"
    /\ budget.logs < budget.log_limit
    /\ eng' = [eng EXCEPT !.telemetry_data =
                   limit_telemetry(Append(@, data_point(state, budget.logs + 1)))]
    /\ budget' = [budget EXCEPT !.logs = @ + 1]
    /\ UNCHANGED <<pigpiod, lk, safety, mon, pid, servo, state, engine_lock, mon_lock, spc,
                   cpc, ctl, mpc, mot, callers, alerts, hist>>

\* clear_telemetry
CmdClearTelemetry(i) ==
    /\ Idle(i)
    /\ engine_lock = "free"
    /\ Called
    /\ eng' = [eng EXCEPT !.telemetry_data = <<>>]
    /\ Return(i, "clear_telemetry", 0, "ok", 0)
    /\ hist' = Touched(hist)
    /\ UNCHANGED <<pigpiod, lk, safety, mon, pid, servo, state, engine_lock, mon_lock, spc,
                   cpc, ctl, mpc, mot, alerts>>

InitTelemetry ==
    /\ safety = DefaultSafety
    /\ pid = InitPid(PresetConservative)
    /\ InitCommon(1)

NextTelemetry ==
    \/ LogTelemetry
    \/ DamperCommands
    \/ \E i \in DOMAIN callers : CmdClearTelemetry(i)

SpecTelemetry == InitTelemetry /\ [][NextTelemetry]_vars

\* C12: every telemetry append leaves at most max_telemetry_points records;
\* the new record is the last one, the records before it are the newest of
\* the previous ring in their order, and only the oldest are discarded.
C12_TelemetryRing ==
    [][budget'.logs = budget.logs + 1 =>
        LET old == eng.telemetry_data
            new == eng'.telemetry_data
            kept == Len(new) - 1
        IN  /\ Len(new) <= max_telemetry_points
            /\ Len(new) = Min2(Len(old) + 1, max_telemetry_points)
            /\ new[Len(new)] = data_point(state, budget'.logs)
            /\ \A k \in 1..kept : new[k] = old[Len(old) - kept + k]]_vars

\* A full ring has lost its oldest record
C12_Witness ==
    /\ Len(eng.telemetry_data) = max_telemetry_points
    /\ eng.telemetry_data[1].timestamp > 1
    /\ eng.telemetry_data[max_telemetry_points].timestamp = budget.logs
    /\ eng.telemetry_data[1].damper_percent
           # eng.telemetry_data[max_telemetry_points].damper_percent

\* ------------------------------------------------------------------------
\* Probe status over many sampler passes
\* ------------------------------------------------------------------------
\* Sampler passes of one run
MaxSamples == 7

\* A failed conversion, 60.5 C, and 272.4 C (outside the valid range)
ProbeVoltages == {0, 1000, 3250}

\* One pass of _monitor_loop in which read_all_channels returned no reading
\* for the pit channel (read_channel returned None): the probe is not
\* updated, _check_safety runs on what is stored.
SamplerTickNoReading(time_diff) ==
    /\ spc = "idle"
    /\ mon.running
    /\ mon_lock = "free"
    /\ budget.ticks < budget.tick_limit
    /\ LET probe == [mon.pit EXCEPT !.since_update = @ + time_diff]
       IN  /\ mon' = [mon EXCEPT !.pit = probe]
           /\ IF CriticalTemp(probe, safety)
              THEN /\ alerts' = <<"CRITICAL">>
                   /\ spc' = "es_lock"
                   /\ mon_lock' = "sampler"
                   /\ hist' = [hist EXCEPT !.trip_loops = -3,
                                           !.missed_run = @ + 1]
              ELSE /\ alerts' = CheckSafetyAlerts(probe, safety)
                   /\ spc' = "idle"
                   /\ mon_lock' = "free"
                   /\ hist' = [hist EXCEPT !.missed_run = @ + 1]
    /\ budget' = [budget EXCEPT !.ticks = @ + 1]
    /\ UNCHANGED <<pigpiod, lk, eng, safety, pid, servo, state, engine_lock, cpc, ctl, mpc,
                   mot, callers>>

InitProbeRun ==
    /\ safety \in {DefaultSafety, ShortTimeoutSafety}
    /\ pid = InitPid(PresetConservative)
    /\ InitBounded(1, MaxSamples, MaxCalls, TRUE)

NextProbeRun ==
    \/ \E v \in ProbeVoltages : SamplerTick(v, update_interval)
    \/ SamplerTickNoReading(update_interval)
    \/ CtlGetTemps
    \/ \E run \in BOOLEAN : CtlUpdateTemperatures(run)
    \/ CtlPidGuard

SpecProbe == InitProbeRun /\ [][NextProbeRun]_vars

\* The sampler processed a sample of the pit channel in this step
SampleStep == mon'.pit.total_readings = mon.pit.total_readings + 1

\* C13: consecutive_errors counts the invalid samples since the latest valid
\* one; an invalid sample that brings it above 5 marks the probe disconnected
\* and raises a WARNING, one that leaves it at 5 or less does not change
\* is_connected; a valid sample resets it to 0 and sets is_connected.
C13_DisconnectAfterSix ==
    [][SampleStep =>
        /\ mon'.pit.consecutive_errors = hist'.invalid_run
        /\ (hist'.invalid_run >= 6) =>
                /\ ~mon'.pit.is_connected
                /\ mon'.pit.consecutive_errors >= 6
                /\ "WARNING" \in Range(alerts')
        /\ (hist'.invalid_run \in 1..5) =>
                mon'.pit.is_connected = mon.pit.is_connected
        /\ (hist'.invalid_run = 0) =>
                /\ mon'.pit.is_connected
                /\ mon'.pit.consecutive_errors = 0]_vars

\* A probe that was connected has been marked disconnected by its sixth
\* invalid sample in a row
C13_Witness ==
    /\ hist.invalid_run = 6
    /\ mon.pit.total_readings = 7
    /\ ~mon.pit.is_connected
    /\ "WARNING" \in Range(alerts)

\* C14: after five sampler passes in a row in which the read of the pit
\* channel failed, the probe is marked disconnected and its temperature is
\* no longer reported as current.
C14_DisconnectAfterFailedReads ==
    hist.missed_run >= 5 =>
        /\ ~mon.pit.is_connected
        /\ current_pit_temperature(mon.pit) = NoTemp

\* C15: after a control pass has updated the snapshot, connected_probes
\* lists a probe exactly when, at the time the pass read the Monitor, the
\* probe's most recent sample was valid and not older than probe_timeout.
C15_ConnectedProbesFresh ==
    [][(cpc = "update" /\ cpc' # "update") =>
        (("pit_probe" \in state'.connected_probes) <=> hist.fresh)]_vars

\* ------------------------------------------------------------------------
\* Manual to automatic transfer with the pit steady at 100 C
\* ------------------------------------------------------------------------
\* The voltage that converts to 100.0 C at offset 0
SteadyVoltage == 2043

InitBumpless ==
    /\ safety = DefaultSafety
    /\ pid = InitPid(PresetConservative)
    /\ InitCommon(1)

NextBumpless ==
    \/ SamplerTick(SteadyVoltage, update_interval)
    \/ ControlNext
    \/ DamperCommands

SpecBumpless == InitBumpless /\ [][NextBumpless]_vars

\* C16: gains (2.0, 0.1, 1.0), pit steady at 100 C, setpoint 110 C: after
\* set_damper_percent(40) and then set_control_mode("automatic") have
\* returned, the first PID output the control loop computes for the servo
\* (it writes it to the servo next, under the same lock) lies in [38, 42].
C16_BumplessTransfer ==
    [][(/\ cpc = "compute" /\ cpc' = "servo"
        /\ hist.applied = 0
        /\ callers[1].pc = "idle"
        /\ callers[1].op = "set_control_mode"
        /\ callers[1].arg = "automatic"
        /\ callers[1].result = "ok"
        /\ state.damper_percent = 400
        /\ servo.target_position = 400
        /\ state.pit_temp_c = 1000
        /\ pid.setpoint = 1100
        /\ <<pid.kp, pid.ki, pid.kd>> = <<200, 10, 100>>)
       => (380 <= ctl'.pid_output /\ ctl'.pid_output <= 420)]_vars

\* ------------------------------------------------------------------------
\* The motion thread following a manual target
\* ------------------------------------------------------------------------
InitMotion ==
    /\ safety = DefaultSafety
    /\ pid = InitPid(PresetConservative)
    /\ InitBounded(1, MaxTicks, MaxCalls, FALSE)

ManualDamperCommands ==
    \E i \in DOMAIN callers :
        \/ \E p \in DamperInputs : CmdSetDamper(i, p)
        \/ CmdSetDamperServo(i)
        \/ CmdSetDamperAuto(i)

NextMotion ==
    \/ MotionNext
    \/ ManualDamperCommands

\* The motion thread loops for as long as the controller runs
SpecMotion ==
    InitMotion /\ [][NextMotion]_vars /\ WF_vars(MotionRead)
        /\ WF_vars(MotionWrite)

AtTarget ==
    Abs(servo.current_position - servo.target_position) <= position_tolerance

CsvNames == {<<"cook">>, <<"cook", ".csv">>, <<"run2", ".csv", ".bak">>}

\* Variant: the suffix is appended to every filename
with_csv_suffix_always(filename) == Append(filename, ".csv")

\* if not filename.endswith('.csv'): filename += '.csv'
with_csv_suffix(filename) ==
    IF filename[Len(filename)] = ".csv" THEN filename
    ELSE Append(filename, ".csv")

\* csv_path = Path("logs") / filename
csv_path(filename) == <<"logs", "/">> \o with_csv_suffix(filename)

\* start_csv_logging up to the with self._lock block: the test of the flag,
\* then open() and the header; opened is FALSE when open() raises
CmdStartCsv(i, filename, opened) ==
    /\ Idle(i)
    /\ Called
    /\ IF eng.csv_logging_enabled
       THEN /\ eng' = eng
            /\ Return(i, "start_csv_logging", filename, "error", 0)
       ELSE IF opened
       THEN /\ eng' = [eng EXCEPT !.csv_file_handle = csv_path(filename),
                                  !.csv_writer = TRUE,
                                  !.open_files = @ \cup {csv_path(filename)}]
            /\ Goto(i, "start_csv_logging", filename, "csv_enable")
       ELSE /\ eng' = [eng EXCEPT !.csv_file_handle = <<>>,
                                  !.csv_writer = FALSE,
                                  !.open_files = @ \ {eng.csv_file_handle}]
            /\ Return(i, "start_csv_logging", filename, "error", 0)
    /\ hist' = Touched(hist)
    /\ UNCHANGED <<pigpiod, lk, safety, mon, pid, servo, state, engine_lock, mon_lock, spc,
                   cpc, ctl, mpc, mot, alerts>>

\* start_csv_logging: with self._lock, set the logging parameters
CmdStartCsvEnable(i) ==
    /\ callers[i].pc = "csv_enable"
    /\ engine_lock = "free"
    /\ eng' = [eng EXCEPT !.csv_logging_enabled = TRUE,
                          !.csv_file_path = csv_path(callers[i].arg),
                          !.csv_start_time = TRUE]
    /\ Return(i, "start_csv_logging", callers[i].arg, "ok", 0)
    /\ hist' = [Touched(hist) EXCEPT !.started_name = callers[i].arg]
    /\ UNCHANGED <<pigpiod, lk, safety, mon, pid, servo, state, engine_lock, mon_lock, spc,
                   cpc, ctl, mpc, mot, alerts, budget>>

\* stop_csv_logging: the test of the flag and file_path = self.csv_file_path
CmdStopCsv(i) ==
    /\ Idle(i)
    /\ Called
    /\ IF ~eng.csv_logging_enabled
       THEN Return(i, "stop_csv_logging", <<>>, "error", 0)
       ELSE Goto(i, "stop_csv_logging", eng.csv_file_path, "csv_disable")
    /\ hist' = Touched(hist)
    /\ UNCHANGED <<pigpiod, lk, eng, safety, mon, pid, servo, state, engine_lock, mon_lock,
                   spc, cpc, ctl, mpc, mot, alerts>>

\* stop_csv_logging: with self._lock: csv_logging_enabled = False
CmdStopCsvDisable(i) ==
    /\ callers[i].pc = "csv_disable"
    /\ engine_lock = "free"
    /\ eng' = [eng EXCEPT !.csv_logging_enabled = FALSE]
    /\ Goto(i, "stop_csv_logging", callers[i].arg, "csv_close")
    /\ hist' = Touched(hist)
    /\ UNCHANGED <<pigpiod, lk, safety, mon, pid, servo, state, engine_lock, mon_lock, spc,
                   cpc, ctl, mpc, mot, alerts, budget>>

\* stop_csv_logging: close the file, clear the fields, return file_path
CmdStopCsvClose(i) ==
    /\ callers[i].pc = "csv_close"
    /\ eng' = [eng EXCEPT !.open_files = @ \ {eng.csv_file_handle},
                          !.csv_file_handle = <<>>,
                          !.csv_writer = FALSE,
                          !.csv_file_path = <<>>,
                          !.csv_start_time = FALSE]
    /\ Return(i, "stop_csv_logging", callers[i].arg, "ok", 0)
    /\ hist' = [Touched(hist) EXCEPT !.returned_path = callers[i].arg]
    /\ UNCHANGED <<pigpiod, lk, safety, mon, pid, servo, state, engine_lock, mon_lock, spc,
                   cpc, ctl, mpc, mot, alerts, budget>>

\* _control_loop: the CSV interval has elapsed, _log_csv_data writes a row
CtlLogCsv ==
    /\ cpc = "idle"
    /\ budget.logs < budget.log_limit
    /\ eng.csv_logging_enabled
    /\ eng' = IF eng.csv_writer /\ eng.csv_start_time
              THEN [eng EXCEPT !.csv_rows = @ + 1] ELSE eng
    /\ budget' = [budget EXCEPT !.logs = @ + 1]
    /\ UNCHANGED <<pigpiod, lk, safety, mon, pid, servo, state, engine_lock, mon_lock, spc,
                   cpc, ctl, mpc, mot, callers, alerts, hist>>

\* CSV commands of one run
MaxCsvCalls == 4

InitCsv ==
    /\ safety = DefaultSafety
    /\ pid = InitPid(PresetConservative)
    /\ InitBounded(1, MaxTicks, MaxCsvCalls, TRUE)

CsvCommands ==
    \E i \in DOMAIN callers :
        \/ \E f \in CsvNames, opened \in BOOLEAN : CmdStartCsv(i, f, opened)
        \/ CmdStartCsvEnable(i)
        \/ CmdStopCsv(i)
        \/ CmdStopCsvDisable(i)
        \/ CmdStopCsvClose(i)

NextCsv ==
    \/ CsvCommands
    \/ CtlLogCsv

SpecCsv == InitCsv /\ [][NextCsv]_vars

\* Caller i issues op in this step
Calls(i, op) ==
    /\ budget'.calls = budget.calls + 1
    /\ callers'[i].op = op

\* The path the spec gives for filename f: under the logs directory, with
\* ".csv" appended if absent
ExpectedPath(f) ==
    IF f[Len(f)] = ".csv" THEN <<"logs", "/">> \o f
    ELSE <<"logs", "/">> \o f \o <<".csv">>

\* C18: start_csv_logging while a session is active fails and changes
\* nothing of the session; stop_csv_logging while idle fails; the stop that
\* follows start_csv_logging(f) returns the path of f under the logs
\* directory and leaves the sink idle, so that a second stop fails.
C18_CsvStateConflicts ==
    [][\A i \in DOMAIN callers :
        /\ (Calls(i, "start_csv_logging") /\ eng.csv_logging_enabled) =>
                /\ callers'[i].pc = "idle"
                /\ callers'[i].result = "error"
                /\ eng' = eng
        /\ (Calls(i, "stop_csv_logging") /\ ~eng.csv_logging_enabled) =>
                /\ callers'[i].pc = "idle"
                /\ callers'[i].result = "error"
                /\ eng' = eng
        /\ (Calls(i, "stop_csv_logging") /\ eng.csv_logging_enabled) =>
                callers'[i].pc # "idle"
        /\ (callers[i].pc = "csv_close" /\ callers'[i].pc = "idle") =>
                /\ callers'[i].result = "ok"
                /\ hist'.returned_path = ExpectedPath(hist.started_name)
                /\ ~eng'.csv_logging_enabled
                /\ eng'.open_files = {}]_vars

\* After four commands: start_csv_logging("cook") succeeded, a row was
\* written, a stop returned logs/cook.csv and the stop after it was refused
C18_Witness ==
    /\ budget.calls = 4
    /\ hist.started_name = <<"cook">>
    /\ hist.returned_path = <<"logs", "/", "cook", ".csv">>
    /\ callers[1].op = "stop_csv_logging"
    /\ callers[1].pc = "idle"
    /\ callers[1].result = "error"
    /\ eng.csv_rows >= 1

\* ------------------------------------------------------------------------
\* Shutdown: EggBotController.stop()
\* ------------------------------------------------------------------------
\* while self._running of the three loops, found false
CtlExit ==
    /\ cpc = "idle"
    /\ ~eng.running
    /\ cpc' = "exited"
    /\ UNCHANGED <<pigpiod, lk, eng, safety, mon, pid, servo, state, engine_lock, mon_lock,
                   spc, ctl, mpc, mot, callers, alerts, budget, hist>>

SamplerExit ==
    /\ spc = "idle"
    /\ ~mon.running
    /\ spc' = "exited"
    /\ UNCHANGED <<pigpiod, lk, eng, safety, mon, pid, servo, state, engine_lock, mon_lock,
                   cpc, ctl, mpc, mot, callers, alerts, budget, hist>>

MotionExit ==
    /\ mpc = "idle"
    /\ ~servo.running
    /\ mpc' = "exited"
    /\ UNCHANGED <<pigpiod, lk, eng, safety, mon, pid, servo, state, engine_lock, mon_lock,
                   spc, cpc, ctl, mot, callers, alerts, budget, hist>>

\* _set_pwm finds pigpio not connected and calls _reconnect_pigpio, which
\* retries up to 10 times with 2 s between attempts
MotionReconnect ==
    /\ mpc = "write"
    /\ mpc' = "reconnect"
    /\ UNCHANGED <<pigpiod, lk, eng, safety, mon, pid, servo, state, engine_lock, mon_lock,
                   spc, cpc, ctl, mot, callers, alerts, budget, hist>>

\* The end of the reconnection (connected: _initialize_pigpio succeeded and
\* called set_position_percent(0)), then the rest of the pass: the position
\* computed before is stored
MotionWriteAfterReconnect(connected) ==
    /\ mpc = "reconnect"
    /\ servo' = [servo EXCEPT !.current_position = mot.new_position,
                              !.target_position =
                                  IF connected THEN servo_target(0) ELSE @]
    /\ mpc' = "idle"
    /\ UNCHANGED <<pigpiod, lk, eng, safety, mon, pid, state, engine_lock, mon_lock, spc,
                   cpc, ctl, mot, callers, alerts, budget, hist>>

\* stop(): self._running = False
CmdStop(i) ==
    /\ Idle(i)
    /\ Called
    /\ eng' = [eng EXCEPT !.running = FALSE]
    /\ Goto(i, "stop", 0, "stop_join_control")
    /\ hist' = Touched(hist)
    /\ UNCHANGED <<pigpiod, lk, safety, mon, pid, servo, state, engine_lock, mon_lock, spc,
                   cpc, ctl, mpc, mot, alerts>>

\* stop(): the control thread is joined (a pass ends well within the 3 s of
\* the timeout), then stop_monitoring(): self._running = False
CmdStopMonitoring(i) ==
    /\ callers[i].pc = "stop_join_control"
    /\ cpc = "exited"
    /\ mon' = [mon EXCEPT !.running = FALSE]
    /\ Goto(i, "stop", 0, "stop_join_sampler")
    /\ UNCHANGED <<pigpiod, lk, eng, safety, pid, servo, state, engine_lock, mon_lock, spc,
                   cpc, ctl, mpc, mot, alerts, budget, hist>>

\* stop(): the sampler thread is joined (2 s), then stop_csv_logging() if
\* the sink is active
CmdStopCsvSink(i) ==
    /\ callers[i].pc = "stop_join_sampler"
    /\ spc = "exited"
    /\ engine_lock = "free"
    /\ eng' = IF eng.csv_logging_enabled
              THEN [eng EXCEPT !.csv_logging_enabled = FALSE,
                               !.open_files = @ \ {eng.csv_file_handle},
                               !.csv_file_handle = <<>>,
                               !.csv_writer = FALSE,
                               !.csv_file_path = <<>>,
                               !.csv_start_time = FALSE]
              ELSE eng
    /\ Goto(i, "stop", 0, "stop_close_damper")
    /\ UNCHANGED <<pigpiod, lk, safety, mon, pid, servo, state, engine_lock, mon_lock, spc,
                   cpc, ctl, mpc, mot, alerts, budget, hist>>

\* stop(): servo_controller.set_position_percent(0), then the 0.5 s sleep
CmdStopCloseDamper(i) ==
    /\ callers[i].pc = "stop_close_damper"
    /\ servo' = [servo EXCEPT !.target_position = servo_target(0)]
    /\ Goto(i, "stop", 0, "stop_servo_close")
    /\ UNCHANGED <<pigpiod, lk, eng, safety, mon, pid, state, engine_lock, mon_lock, spc,
                   cpc, ctl, mpc, mot, alerts, budget, hist>>

\* stop(): servo_controller.close(): self._running = False
CmdStopServo(i) ==
    /\ callers[i].pc = "stop_servo_close"
    /\ servo' = [servo EXCEPT !.running = FALSE]
    /\ Goto(i, "stop", 0, "stop_join_motion")
    /\ UNCHANGED <<pigpiod, lk, eng, safety, mon, pid, state, engine_lock, mon_lock, spc,
                   cpc, ctl, mpc, mot, alerts, budget, hist>>

\* close(): join(timeout=1.0) returns when the motion thread has exited, or
\* after 1 s when the thread is inside a reconnection; stop_servo(); stop()
\* returns
CmdStopReturn(i) ==
    /\ callers[i].pc = "stop_join_motion"
    /\ mpc \in {"exited", "reconnect"}
    /\ Return(i, "stop", 0, "ok", 0)
    /\ hist' = [hist EXCEPT !.stopped = TRUE]
    /\ UNCHANGED <<pigpiod, lk, eng, safety, mon, pid, servo, state, engine_lock, mon_lock,
                   spc, cpc, ctl, mpc, mot, alerts, budget>>

\* Commands of one run that ends with stop()
MaxStopCalls == 2

InitStop ==
    /\ safety = DefaultSafety
    /\ pid = InitPid(PresetConservative)
    /\ InitLimited(1, 1, MaxStopCalls, 1, TRUE)

\* The client opens the damper or switches to automatic before stopping
ClientCommands ==
    \E i \in DOMAIN callers :
        \/ CmdSetControlMode(i, "automatic")
        \/ CmdSetControlModeAuto(i)
        \/ CmdSetControlModeEnable(i)
        \/ CmdSetDamper(i, 400)
        \/ CmdSetDamperServo(i)
        \/ CmdSetDamperAuto(i)
        \/ \E opened \in BOOLEAN : CmdStartCsv(i, <<"cook">>, opened)
        \/ CmdStartCsvEnable(i)

StopCommands ==
    \E i \in DOMAIN callers :
        \/ CmdStop(i)
        \/ CmdStopMonitoring(i)
        \/ CmdStopCsvSink(i)
        \/ CmdStopCloseDamper(i)
        \/ CmdStopServo(i)
        \/ CmdStopReturn(i)

\* The running system: the three threads, the periodic telemetry and CSV
\* writes of the control loop, a client, and the pigpio daemon dropping out
NextStop ==
    \/ SamplerTick(SteadyVoltage, update_interval)
    \/ ControlNext
    \/ LogTelemetry
    \/ CtlLogCsv
    \/ MotionNext
    \/ MotionReconnect
    \/ \E connected \in BOOLEAN : MotionWriteAfterReconnect(connected)
    \/ CtlExit
    \/ SamplerExit
    \/ MotionExit
    \/ ClientCommands
    \/ StopCommands

SpecStop == InitStop /\ [][NextStop]_vars

\* C19: once stop() has returned the three threads have left their loops;
\* from then on there is no step of the control thread (PID computation),
\* no telemetry append, no CSV row and no motion step; when stop() returns
\* the servo target is 0 and no CSV file is open.
C19_StopQuiesces ==
    /\ [](hist.stopped =>
            /\ cpc = "exited"
            /\ spc = "exited"
            /\ mpc = "exited")
    /\ [][hist.stopped =>
            /\ cpc' = cpc
            /\ budget'.computes = budget.computes
            /\ eng'.telemetry_data = eng.telemetry_data
            /\ eng'.csv_rows = eng.csv_rows
            /\ mpc' = mpc
            /\ servo'.current_position = servo.current_position]_vars
    /\ [][~hist.stopped /\ hist'.stopped =>
            /\ servo'.target_position = 0
            /\ eng'.open_files = {}
            /\ ~eng'.csv_logging_enabled]_vars

\* ------------------------------------------------------------------------
\* Calibration followed by a sample
\* ------------------------------------------------------------------------
\* 60.5 C, 100.0 C and 170.1 C at offset 0
CalibrationVoltages == {1000, 2043, 3000}

\* Reference temperatures: near each of the three, and room temperature
ActualTemperatures == {250, 600, 1010, 1700}

\* Sampler passes of one calibration run
MaxCalibrationTicks == 3

InitCalibrate ==
    /\ safety = DefaultSafety
    /\ pid = InitPid(PresetConservative)
    /\ InitBounded(1, MaxCalibrationTicks, MaxCalls, TRUE)

NextCalibrate ==
    \/ \E v \in CalibrationVoltages : SamplerTick(v, update_interval)
    \/ \E i \in DOMAIN callers, a \in ActualTemperatures :
           CmdCalibrateProbe(i, a)

SpecCalibrate == InitCalibrate /\ [][NextCalibrate]_vars

\* C20: a sampler pass that follows a successful calibrate_probe(pit,
\* actual_t) and processes the same raw sample as the pass before leaves a
\* filtered pit temperature within 1 degree of actual_t.
C20_CalibrationRoundTrip ==
    [][(/\ hist.calibrated
        /\ callers[1].op = "calibrate_probe"
        /\ budget'.ticks = budget.ticks + 1
        /\ hist'.voltage = hist.voltage)
       => Abs(mon'.pit.temperature_c - callers[1].arg) <= 10]_vars

\* ------------------------------------------------------------------------
\* The locking of the four components
\* ------------------------------------------------------------------------
\* with <component>._lock: body
With(l, body) == <<(<<"acquire", l>>)>> \o body \o <<(<<"release", l>>)>>

\* ServoController.set_position_percent / get_position_percent
set_position_percent_locks == With("actuator", <<>>)

get_position_percent_locks == With("actuator", <<>>)

\* PIDController.compute, get_state, set_auto_mode, enable, disable,
\* set_setpoint, set_gains: each one block under the Regulator lock
pid_controller_locks == With("regulator", <<>>)

\* TemperatureMonitor.get_current_temperatures, get_all_probe_status
get_current_temperatures_locks == With("monitor", <<>>)

\* _emergency_shutdown: the snapshot under the Engine lock, then the servo,
\* then pid_controller.disable()
emergency_shutdown_locks ==
    With("engine", <<>>) \o set_position_percent_locks \o pid_controller_locks

\* _monitor_loop: _update_probe_status and _check_safety under the Monitor
\* lock; a CRITICAL alert runs the Engine's callback inside that block
monitor_loop_locks(critical) ==
    With("monitor", IF critical THEN emergency_shutdown_locks ELSE <<>>)

\* Variant: the temperatures are fetched inside the Engine lock's block
update_temperatures_locks_nested ==
    With("engine", get_current_temperatures_locks)

\* _update_temperatures: get_current_temperatures(), then the snapshot under
\* the Engine lock (is_safety_shutdown takes no lock)
update_temperatures_locks ==
    get_current_temperatures_locks \o With("engine", <<>>)

\* _run_pid_control: the whole body under the Engine lock; past the guard
\* compute, set_position_percent, get_state, get_position_percent
run_pid_control_locks(guard) ==
    With("engine",
         IF guard
         THEN pid_controller_locks \o set_position_percent_locks
                  \o pid_controller_locks \o get_position_percent_locks
         ELSE <<>>)

\* _log_telemetry
log_telemetry_locks == With("engine", <<>>)

\* One pass of _control_loop (_log_csv_data takes no lock)
control_loop_locks(guard) ==
    update_temperatures_locks \o run_pid_control_locks(guard)
        \o log_telemetry_locks

\* One pass of _position_control_loop: read under the lock; when moving,
\* _set_pwm (whose reconnection calls set_position_percent(0)) and the
\* store of the new position under the lock
position_control_loop_locks(moving, reconnect) ==
    With("actuator", <<>>)
        \o (IF moving
            THEN (IF reconnect THEN set_position_percent_locks ELSE <<>>)
                     \o With("actuator", <<>>)
            ELSE <<>>)

\* set_damper_percent
set_damper_percent_locks ==
    With("engine", <<>>) \o set_position_percent_locks
        \o pid_controller_locks

\* set_control_mode(mode): automatic calls set_auto_mode and enable
set_control_mode_locks(mode) ==
    With("engine", <<>>)
        \o (IF mode = "automatic"
            THEN pid_controller_locks \o pid_controller_locks
            ELSE pid_controller_locks)

\* set_setpoint
set_setpoint_locks == With("engine", <<>>) \o pid_controller_locks

\* set_pid_gains: the Regulator first, then the snapshot
set_pid_gains_locks == pid_controller_locks \o With("engine", <<>>)

\* get_probe_status
get_probe_status_locks == get_current_temperatures_locks

\* The commands a caller may issue
CommandLocks ==
    {set_damper_percent_locks, set_control_mode_locks("automatic"),
     set_control_mode_locks("manual"), set_setpoint_locks,
     set_pid_gains_locks, get_probe_status_locks}

LkRest ==
    <<pigpiod, eng, safety, mon, pid, servo, state, engine_lock, mon_lock, spc, cpc,
      ctl, mpc, mot, callers, alerts, budget, hist>>

\* Thread t starts a pass or a command
LkBegin(t, todo) ==
    /\ lk.todo[t] = <<>>
    /\ lk' = [lk EXCEPT !.todo[t] = todo]
    /\ UNCHANGED LkRest

SamplerPassBegins ==
    \E critical \in BOOLEAN :
        LkBegin(<<"sampler", 0>>, monitor_loop_locks(critical))

ControlPassBegins ==
    \E guard \in BOOLEAN :
        LkBegin(<<"control", 0>>, control_loop_locks(guard))

MotionPassBegins ==
    \E moving \in BOOLEAN, reconnect \in BOOLEAN :
        LkBegin(<<"motion", 0>>, position_control_loop_locks(moving, reconnect))

CommandBegins ==
    \E i \in 1..MaxLockCallers, todo \in CommandLocks :
        LkBegin(<<"caller", i>>, todo)

\* threading.Lock.acquire: blocks until the lock is free (not reentrant)
LkAcquire(t) ==
    /\ lk.todo[t] # <<>>
    /\ Head(lk.todo[t])[1] = "acquire"
    /\ lk.holder[Head(lk.todo[t])[2]] = NoThread
    /\ lk' = [lk EXCEPT !.holder[Head(lk.todo[t])[2]] = t,
                        !.todo[t] = Tail(@)]
    /\ UNCHANGED LkRest

\* threading.Lock.release at the end of the with block
LkRelease(t) ==
    /\ lk.todo[t] # <<>>
    /\ Head(lk.todo[t])[1] = "release"
    /\ lk' = [lk EXCEPT !.holder[Head(lk.todo[t])[2]] = NoThread,
                        !.todo[t] = Tail(@)]
    /\ UNCHANGED LkRest

InitLocks ==
    /\ safety = DefaultSafety
    /\ pid = InitPid(PresetConservative)
    /\ InitCommon(1)

NextLocks ==
    \/ SamplerPassBegins
    \/ ControlPassBegins
    \/ MotionPassBegins
    \/ CommandBegins
    \/ \E t \in Threads : LkAcquire(t)
    \/ \E t \in Threads : LkRelease(t)

SpecLocks == InitLocks /\ [][NextLocks]_vars

\* The locks thread t holds
Held(t) == {l \in Locks : lk.holder[l] = t}

\* C21: no thread holds two of the Engine, Monitor and Actuator locks at
\* once, and a thread that holds the Engine lock holds no other lock (it is
\* not inside a call into the Monitor, the Regulator or the Actuator).
C21_NoNestedLocks ==
    \A t \in Threads :
        /\ Cardinality(Held(t) \cap {"engine", "monitor", "actuator"}) <= 1
        /\ "engine" \in Held(t) => Held(t) = {"engine"}

\* The thread that holds the lock t is blocked on
WaitsFor(t) ==
    IF t = NoThread THEN NoThread
    ELSE IF lk.todo[t] = <<>> THEN NoThread
    ELSE IF Head(lk.todo[t])[1] # "acquire" THEN NoThread
    ELSE lk.holder[Head(lk.todo[t])[2]]

RECURSIVE WaitChain(_, _)
WaitChain(t, n) == IF n = 0 THEN t ELSE WaitsFor(WaitChain(t, n - 1))

\* C22: no reachable state has a cycle of threads each waiting for a lock
\* held by the next (a thread waiting for a lock it holds itself included).
C22_DeadlockFree ==
    \A t \in Threads, n \in 1..Cardinality(Threads) : WaitChain(t, n) # t

\* The control thread waits for the Monitor lock held by the sampler, whose
\* alert callback waits for the Engine lock held by a caller
C22_Witness ==
    /\ WaitsFor(<<"control", 0>>) = <<"sampler", 0>>
    /\ WaitsFor(<<"sampler", 0>>)[1] = "caller"

\* ------------------------------------------------------------------------
\* Atomicity of the emergency shutdown
\* ------------------------------------------------------------------------
\* _emergency_shutdown has latched the shutdown in the snapshot and has not
\* yet finished, and the regulator is still enabled or the servo target is
\* not 0
ShutdownHalfDone ==
    /\ spc \in {"es_servo", "es_pid"}
    /\ state.safety_shutdown
    /\ (pid.enabled \/ servo.target_position # 0)

\* C23: while the emergency shutdown is half done neither the control thread
\* nor a command caller takes a step, and when it completes shutdown = true,
\* mode = manual, regulator disabled and servo target = 0 hold together.
C23_ShutdownAtomic ==
    /\ [][ShutdownHalfDone =>
            /\ cpc' = cpc
            /\ budget'.calls = budget.calls
            /\ \A i \in DOMAIN callers : callers'[i].pc = callers[i].pc]_vars
    /\ [][(spc = "es_pid" /\ spc' # "es_pid") =>
            /\ state'.safety_shutdown
            /\ state'.control_mode = "manual"
            /\ ~pid'.enabled
            /\ servo'.target_position = 0]_vars

\* ------------------------------------------------------------------------
\* Two clients changing the mode concurrently
\* ------------------------------------------------------------------------
InitModes ==
    /\ safety = DefaultSafety
    /\ pid = InitPid(PresetConservative)
    /\ InitCommon(2)

NextModes == DamperCommands

SpecModes == InitModes /\ [][NextModes]_vars

\* C24: whenever every command call has returned, control_mode = automatic
\* implies that the regulator is enabled and in auto mode.
C24_ModeAgreesWithRegulator ==
    ((\A i \in DOMAIN callers : callers[i].pc = "idle")
        /\ state.control_mode = "automatic")
    => (pid.enabled /\ pid.auto_mode)

\* ------------------------------------------------------------------------
\* The guard of the control tick
\* ------------------------------------------------------------------------
\* C25: the control thread calls compute and writes the servo target only
\* in a state with control_mode = automatic, safety_shutdown = false and a
\* pit temperature present; any other step of the control thread leaves the
\* regulator, the servo target and the snapshot's pid_output, pid_error and
\* damper_percent unchanged.
C25_TickGuarded ==
    /\ [][(cpc \in {"compute", "servo"} /\ cpc' # cpc) =>
            /\ state.control_mode = "automatic"
            /\ ~state.safety_shutdown
            /\ state.pit_temp_c # NoTemp]_vars
    /\ [][(cpc \notin {"compute", "servo", "store"} /\ cpc' # cpc) =>
            /\ pid' = pid
            /\ servo'.target_position = servo.target_position
            /\ state'.pid_output = state.pid_output
            /\ state'.pid_error = state.pid_error
            /\ state'.damper_percent = state.damper_percent]_vars

\* After a set_control_mode call returned, a pass in automatic mode with a
\* pit temperature has computed and written the servo target
C25_Witness ==
    /\ cpc = "store"
    /\ state.control_mode = "automatic"
    /\ state.pit_temp_c # NoTemp
    /\ \E i \in DOMAIN callers :
           callers[i].op = "set_control_mode" /\ callers[i].pc = "idle"

\* ------------------------------------------------------------------------
\* Invalid samples
\* ------------------------------------------------------------------------
\* x lies between a and b
Between(x, a, b) == Min2(a, b) <= x /\ x <= Max2(a, b)

\* C26: while the latest pit sample is invalid the control thread is handed
\* no pit temperature, and the temperature stored for a valid sample that
\* follows invalid ones lies between its own converted value and the
\* temperature stored for the valid sample before them (it is the converted
\* value when there is none): the invalid samples' values are not in it.
C26_InvalidNotPropagated ==
    /\ [][(cpc = "idle" /\ cpc' = "update" /\ mon.pit.has_reading
              /\ ~hist.sample_valid) => ctl'.temps = NoTemp]_vars
    /\ [][(SampleStep /\ hist.invalid_run >= 1 /\ hist'.sample_valid) =>
            IF hist.last_valid = NoTemp
            THEN mon'.pit.temperature_c = hist'.converted
            ELSE Between(mon'.pit.temperature_c, hist'.converted,
                         hist.last_valid)]_vars

\* C27: processing a sample with is_valid = false leaves min_temp, max_temp,
\* average_temp and temperature_history unchanged and increments
\* consecutive_errors by exactly 1.
C27_InvalidSampleFrame ==
    [][(SampleStep /\ ~hist'.sample_valid) =>
        /\ mon'.pit.min_temp = mon.pit.min_temp
        /\ mon'.pit.max_temp = mon.pit.max_temp
        /\ mon'.pit.average_temp = mon.pit.average_temp
        /\ mon'.pit.temperature_history = mon.pit.temperature_history
        /\ mon'.pit.consecutive_errors = mon.pit.consecutive_errors + 1]_vars

\* After a valid sample set the statistics, two invalid samples in a row
\* were processed, the latest a failed conversion
C27_Witness ==
    /\ mon.pit.temperature_history # <<>>
    /\ mon.pit.min_temp # Infinity
    /\ ~mon.pit.is_valid
    /\ mon.pit.consecutive_errors >= 2
    /\ hist.voltage = 0
    /\ mon.pit.max_temp < 2724

\* Samples across and beyond the practical range: failed conversion, 60.5 C,
\* 170.1 C, and 272.4 C and 404.9 C (above the range's 228.9 C)
RangeVoltages == {0, 1000, 3000, 3250, 3290}

\* Sampler passes of one run over the range
MaxRangeTicks == 4

InitRange ==
    /\ safety = DefaultSafety
    /\ pid = InitPid(PresetConservative)
    /\ InitBounded(1, MaxRangeTicks, MaxCalls, TRUE)

NextRange == \E v \in RangeVoltages : SamplerTick(v, update_interval)

SpecRange == InitRange /\ [][NextRange]_vars

\* C28: every sample stored with is_valid = true has a stored (filtered)
\* temperature inside the practical range of its probe, whatever samples
\* came before it.
C28_StoredValidInRange ==
    (mon.pit.has_reading /\ mon.pit.is_valid) =>
        /\ get_temperature_range(mon.offset_c)[1] <= mon.pit.temperature_c
        /\ mon.pit.temperature_c <= get_temperature_range(mon.offset_c)[2]

\* ------------------------------------------------------------------------
\* Probe timeout
\* ------------------------------------------------------------------------
\* A sampler pass in which the pit probe got no update
PassWithoutUpdate ==
    /\ budget'.ticks = budget.ticks + 1
    /\ mon.pit.has_reading
    /\ mon'.pit.since_update > mon.pit.since_update

\* C29: the safety check of the first pass at which the time since the
\* probe's last update exceeds probe_timeout raises a WARNING; the checks of
\* later passes, while the probe still has no update, raise none (passes
\* with a temperature or rate warning of their own set aside).
C29_TimeoutWarnedOnce ==
    /\ [][(PassWithoutUpdate
              /\ mon.pit.since_update <= safety.probe_timeout
              /\ mon'.pit.since_update > safety.probe_timeout)
           => "WARNING" \in Range(alerts')]_vars
    /\ [][(PassWithoutUpdate
              /\ mon.pit.since_update > safety.probe_timeout
              /\ ~HighTempWarning(mon'.pit, safety)
              /\ ~RateWarning(mon'.pit, safety))
           => "WARNING" \notin Range(alerts')]_vars

\* ------------------------------------------------------------------------
\* Bumpless initialisation of the Regulator
\* ------------------------------------------------------------------------
\* This step is a call of set_auto_mode
SetAutoModeStep ==
    /\ budget'.ops = budget.ops + 1
    /\ callers'[1].op = "set_auto_mode"
    /\ callers'[1].ret = budget'.ops

\* C30: set_auto_mode(True) in manual mode sets the integral to the output
\* clamped to [integral_min, integral_max], empties the error history and
\* sets last_error to 0, and changes nothing else but the mode (setpoint,
\* output and gains stay); set_auto_mode with the current mode changes
\* nothing.
C30_BumplessInitialisation ==
    [][SetAutoModeStep =>
        /\ (callers'[1].arg = 1 /\ ~pid.auto_mode) =>
               pid' = [pid EXCEPT
                          !.auto_mode = TRUE,
                          !.integral = Max2(pid.integral_min,
                                            Min2(pid.integral_max, pid.output)),
                          !.error_history = <<>>,
                          !.last_error = 0]
        /\ ((callers'[1].arg = 1) = pid.auto_mode) => pid' = pid]_vars

\* set_auto_mode(True) has just taken the regulator from manual to auto
\* after a computation left an output above integral_max
C30_Witness ==
    /\ callers[1].op = "set_auto_mode"
    /\ callers[1].arg = 1
    /\ callers[1].ret = budget.ops
    /\ budget.computes >= 1
    /\ pid.auto_mode
    /\ pid.error_history = <<>>
    /\ pid.output > pid.integral_max
    /\ pid.integral = pid.integral_max

\* ------------------------------------------------------------------------
\* Setpoint changes of the Regulator
\* ------------------------------------------------------------------------
\* C31: a set_setpoint that changes the setpoint by more than 5 degrees
\* resets the integral to 0; one that changes it by 5 degrees or less
\* leaves the integral unchanged; output, derivative and error history are
\* unchanged in both cases.
C31_SetpointResetsIntegral ==
    [][(pid'.setpoint # pid.setpoint) =>
        /\ (Abs(pid'.setpoint - pid.setpoint) > 50) => pid'.integral = 0
        /\ (Abs(pid'.setpoint - pid.setpoint) <= 50) =>
               pid'.integral = pid.integral
        /\ pid'.output = pid.output
        /\ pid'.derivative = pid.derivative
        /\ pid'.error_history = pid.error_history]_vars

\* A computation against the setpoint 110 accumulated an integral, then the
\* setpoint was moved to 400 and the integral is 0
C31_Witness ==
    /\ pid.setpoint = 4000
    /\ pid.integral = 0
    /\ pid.ki > 0
    /\ pid.error = 100
    /\ pid.process_variable = 1000
    /\ pid.error_history # <<>>

\* ------------------------------------------------------------------------
\* The first computation after the Regulator is enabled
\* ------------------------------------------------------------------------
\* C32: the first compute call (without dt) after enable(), also an enable()
\* that follows a disable(), only latches last_compute_time and returns the
\* previous output: integral, derivative and error are unchanged.
C32_FirstComputeLatches ==
    [][(/\ callers[1].op = "enable"
        /\ callers[1].ret = budget.ops
        /\ callers'[1].op = "compute"
        /\ callers'[1].arg = 0
        /\ callers'[1].ret = budget.ops + 1)
       => /\ pid'.latched
          /\ pid'.output = pid.output
          /\ ctl'.pid_output = pid.output
          /\ pid'.integral = pid.integral
          /\ pid'.derivative = pid.derivative
          /\ pid'.error = pid.error]_vars

\* ------------------------------------------------------------------------
\* The Actuator and the pigpio daemon
\* ------------------------------------------------------------------------
\* servo.pi is the session object self._pi: "none" (None), "connected" (a
\* live session), "broken" (the daemon went away under the session:
\* commands raise, the connected flag is still set), "disconnected" (the
\* connected flag is cleared).

\* _reconnect_pigpio up to the call of _initialize_pigpio, whose attempts
\* follow one by one; after: where the motion thread goes on afterwards
Reconnecting(sv) ==
    [sv EXCEPT !.pi = "none", !.simulate = FALSE, !.connection_attempts = 0]

\* The pulse of the position this pass computed
MotionPulse == percent_to_pulse_width(mot.new_position)

FailedWrite(h) ==
    [h EXCEPT !.pwm_result = "failed",
              !.pwm_failures = Min2(@ + 1, MaxFailures)]

\* _set_pwm in simulation mode: the pulse is recorded, True is returned and
\* the pass stores the new position
MotionSetPwmSimulated ==
    /\ mpc = "write"
    /\ servo.simulate
    /\ servo' = [servo EXCEPT !.last_pulse_width = MotionPulse,
                              !.current_position = mot.new_position]
    /\ hist' = [hist EXCEPT !.pwm_result = "ok", !.pwm_failures = 0]
    /\ mpc' = "idle"
    /\ UNCHANGED <<pigpiod, lk, eng, safety, mon, pid, state, engine_lock,
                   mon_lock, spc, cpc, ctl, mot, callers, alerts, budget>>

\* _set_pwm without a connected session: _reconnect_pigpio first
MotionSetPwmNotConnected ==
    /\ mpc = "write"
    /\ ~servo.simulate
    /\ servo.pi \in {"none", "disconnected"}
    /\ servo' = Reconnecting(servo)
    /\ mot' = [mot EXCEPT !.after = "send"]
    /\ mpc' = "connect"
    /\ UNCHANGED <<pigpiod, lk, eng, safety, mon, pid, state, engine_lock,
                   mon_lock, spc, cpc, ctl, callers, alerts, budget, hist>>

\* _set_pwm with a session: set_servo_pulsewidth returns 0 ("ok"), returns
\* an error code ("code") or raises ("exception": always on a broken
\* session, and on a live one when a single command fails); then, unless a
\* reconnection starts, the pass stores the new position whatever _set_pwm
\* returned
MotionSetPwmSend(result) ==
    /\ mpc = "write"
    /\ ~servo.simulate
    /\ servo.pi \in {"connected", "broken"}
    /\ (servo.pi = "broken") => (result = "exception")
    /\ CASE result = "ok" ->
              /\ servo' = [servo EXCEPT
                               !.last_pulse_width = MotionPulse,
                               !.current_position = mot.new_position]
              /\ hist' = [hist EXCEPT !.pwm_result = "ok",
                                      !.pwm_failures = 0]
              /\ mpc' = "idle"
              /\ mot' = mot
         [] result = "code" ->
              /\ servo' = [servo EXCEPT
                               !.current_position = mot.new_position]
              /\ hist' = FailedWrite(hist)
              /\ mpc' = "idle"
              /\ mot' = mot
         [] result = "exception" /\ servo.connection_lost_count + 1 <= 3 ->
              /\ servo' = [servo EXCEPT
                               !.connection_lost_count = @ + 1,
                               !.current_position = mot.new_position]
              /\ hist' = FailedWrite(hist)
              /\ mpc' = "idle"
              /\ mot' = mot
         [] result = "exception" /\ servo.connection_lost_count + 1 > 3 ->
              /\ servo' = Reconnecting(
                              [servo EXCEPT !.connection_lost_count = @ + 1])
              /\ hist' = FailedWrite(hist)
              /\ mpc' = "connect"
              /\ mot' = [mot EXCEPT !.after = "store"]
    /\ UNCHANGED <<pigpiod, lk, eng, safety, mon, pid, state, engine_lock,
                   mon_lock, spc, cpc, ctl, callers, alerts, budget>>

\* Variant: no fallback to simulation after the last attempt
initialize_attempt_no_fallback(sv, ok) ==
    [sv EXCEPT !.connection_attempts = @ + 1,
               !.pi = IF ok THEN "connected" ELSE "none",
               !.target_position = IF ok THEN servo_target(0) ELSE @]

\* One pass of the loop of _initialize_pigpio on the Actuator's fields
initialize_attempt(sv, ok) ==
    [sv EXCEPT !.connection_attempts = @ + 1,
               !.pi = IF ok THEN "connected" ELSE "none",
               !.target_position = IF ok THEN servo_target(0) ELSE @,
               !.simulate =
                   ~ok /\ sv.connection_attempts + 1
                              >= max_connection_attempts]

\* One attempt of _initialize_pigpio. It succeeds when the daemon is up:
\* the session is connected and set_position_percent(0) is called. When it
\* fails the session is dropped and, after the last attempt, simulate is
\* set. When the attempts are over the caller goes on: the constructor
\* starts the motion thread ("start"), _set_pwm sends its pulse if the
\* reconnection succeeded ("send") and returns False if not, the handler
\* of the exception clears _connection_lost_count and returns False
\* ("store"), the health check returns ("idle").
MotionConnect ==
    /\ mpc = "connect"
    /\ LET ok == pigpiod = "up"
           n == servo.connection_attempts + 1
           over == ok \/ n >= max_connection_attempts
       IN /\ servo' = [initialize_attempt(servo, ok) EXCEPT
                           !.connection_lost_count =
                               IF over /\ mot.after = "store" THEN 0 ELSE @]
          /\ mpc' = CASE ~over -> "connect"
                      [] over /\ mot.after = "send" ->
                             IF ok THEN "write" ELSE "store"
                      [] over /\ mot.after = "store" -> "store"
                      [] OTHER -> "idle"
          /\ mot' = [mot EXCEPT !.after = IF over THEN "none" ELSE @]
          /\ hist' = IF over /\ ~ok /\ mot.after = "send"
                     THEN FailedWrite(hist) ELSE hist
    /\ UNCHANGED <<pigpiod, lk, eng, safety, mon, pid, state, engine_lock,
                   mon_lock, spc, cpc, ctl, callers, alerts, budget>>

\* The pass stores the new position after a _set_pwm that reconnected
MotionStore ==
    /\ mpc = "store"
    /\ servo' = [servo EXCEPT !.current_position = mot.new_position]
    /\ mpc' = "idle"
    /\ UNCHANGED <<pigpiod, lk, eng, safety, mon, pid, state, engine_lock,
                   mon_lock, spc, cpc, ctl, mot, callers, alerts, budget,
                   hist>>

\* _perform_health_check when its interval has elapsed and the session is
\* not usable: no session or not connected, or get_pigpio_version raises.
\* (In simulation mode it returns at once, with a usable session it only
\* logs: neither changes the state.)
MotionHealthCheck ==
    /\ mpc = "idle"
    /\ servo.running
    /\ ~servo.simulate
    /\ servo.pi # "connected"
    /\ servo' = Reconnecting(servo)
    /\ mot' = [mot EXCEPT !.after = "idle"]
    /\ mpc' = "connect"
    /\ UNCHANGED <<pigpiod, lk, eng, safety, mon, pid, state, engine_lock,
                   mon_lock, spc, cpc, ctl, callers, alerts, budget, hist>>

\* set_position_percent called on the constructed Actuator
ActuatorSetPosition(percent) ==
    /\ mot.after # "start"
    /\ budget.calls < budget.call_limit
    /\ servo' = [servo EXCEPT !.target_position = servo_target(percent)]
    /\ budget' = [budget EXCEPT !.calls = @ + 1]
    /\ UNCHANGED <<pigpiod, lk, eng, safety, mon, pid, state, engine_lock,
                   mon_lock, spc, cpc, ctl, mpc, mot, callers, alerts, hist>>

\* The daemon stops: a connected session breaks
DaemonDown ==
    /\ pigpiod = "up"
    /\ pigpiod' = "down"
    /\ servo' = [servo EXCEPT
                     !.pi = IF @ = "connected" THEN "broken" ELSE @]
    /\ UNCHANGED <<lk, eng, safety, mon, pid, state, engine_lock, mon_lock,
                   spc, cpc, ctl, mpc, mot, callers, alerts, budget, hist>>

\* The daemon is started again
DaemonUp ==
    /\ pigpiod = "down"
    /\ pigpiod' = "up"
    /\ UNCHANGED <<lk, eng, safety, mon, pid, servo, state, engine_lock,
                   mon_lock, spc, cpc, ctl, mpc, mot, callers, alerts,
                   budget, hist>>

\* The broken session notices: its connected flag is cleared
SessionDrops ==
    /\ servo.pi = "broken"
    /\ servo' = [servo EXCEPT !.pi = "disconnected"]
    /\ UNCHANGED <<pigpiod, lk, eng, safety, mon, pid, state, engine_lock,
                   mon_lock, spc, cpc, ctl, mpc, mot, callers, alerts,
                   budget, hist>>

PulseResults == {"ok", "code", "exception"}

DaemonTargets == {0, 100}

\* ServoController.__init__ with simulate = False has reached
\* _initialize_pigpio; the daemon is up or down
InitDaemon ==
    /\ safety = DefaultSafety
    /\ pid = InitPid(PresetConservative)
    /\ lk = InitLk
    /\ eng = InitEng
    /\ mon = [safety_shutdown |-> FALSE, offset_c |-> 0, pit |-> InitProbe,
              running |-> TRUE]
    /\ servo = [target_position |-> 0, current_position |-> 0,
                running |-> TRUE, simulate |-> FALSE, pi |-> "none",
                last_pulse_width |-> 0, connection_attempts |-> 0,
                connection_lost_count |-> 0]
    /\ pigpiod \in {"up", "down"}
    /\ state = InitState
    /\ engine_lock = "free"
    /\ mon_lock = "free"
    /\ spc = "idle"
    /\ cpc = "idle"
    /\ ctl = [temps |-> NoTemp, pid_output |-> 0, ran_once |-> FALSE]
    /\ mpc = "connect"
    /\ mot = [new_position |-> 0, after |-> "start"]
    /\ callers = <<InitCaller>>
    /\ alerts = <<>>
    /\ budget = [ticks |-> 0, loops |-> 0, calls |-> 0, motions |-> 0,
                 computes |-> 0, ops |-> 0, logs |-> 0, tick_limit |-> 0,
                 call_limit |-> MaxDaemonCalls, log_limit |-> 0,
                 move_limit |-> 0,
                 count_motions |-> FALSE]
    /\ hist = InitHist

MotionThread ==
    \/ MotionRead
    \/ MotionSetPwmSimulated
    \/ MotionSetPwmNotConnected
    \/ \E r \in PulseResults : MotionSetPwmSend(r)
    \/ MotionConnect
    \/ MotionStore
    \/ MotionHealthCheck

NextDaemon ==
    \/ MotionThread
    \/ \E p \in DaemonTargets : ActuatorSetPosition(p)
    \/ DaemonDown
    \/ DaemonUp
    \/ SessionDrops

SpecDaemon == InitDaemon /\ [][NextDaemon]_vars

\* The motion thread keeps running: every step it can take it takes
SpecDaemonFair == SpecDaemon /\ WF_vars(MotionThread)

\* C33: a pass of the motion thread changes current_position by at most
\* max_speed * 0.05 (1.5 points), toward the target it read and not past it;
\* a pass that reads a position within position_tolerance of the target
\* leaves current_position unchanged.
C33_MotionStepBounded ==
    /\ [][/\ 10 * Abs(servo'.current_position - servo.current_position)
               <= max_speed * 5
          /\ (servo'.current_position # servo.current_position)
                 => /\ mpc \in {"write", "store"}
                    /\ servo'.current_position = mot.new_position]_vars
    /\ [][(mpc = "idle" /\ mpc' = "write")
            => LET c == servo.current_position
                   t == servo.target_position
                   n == mot'.new_position
               IN /\ Abs(c - t) > position_tolerance
                  /\ servo'.current_position = c
                  /\ n # c
                  /\ (t > c => (c < n /\ n <= t))
                  /\ (t < c => (t <= n /\ n < c))]_vars
    /\ [][(mpc = "idle" /\ Abs(servo.current_position
                                   - servo.target_position)
                               <= position_tolerance)
            => (mpc' # "write"
                /\ servo'.current_position = servo.current_position)]_vars

\* Six passes took the position from 0 to 9, within tolerance of the
\* target 10, each pulse written to the daemon
C33_Witness ==
    /\ servo.target_position = 100
    /\ servo.current_position = 90
    /\ servo.last_pulse_width = 1105
    /\ ~servo.simulate
    /\ hist.pwm_result = "ok"
    /\ mpc = "idle"

\* C34: a failed pulse write starts a full reconnection only when it is the
\* last of more than 3 failed _set_pwm calls in a row: a successful write
\* between failures restarts the count.
C34_ReconnectAfterConsecutiveFailures ==
    [][(mpc = "write" /\ mpc' = "connect" /\ mot'.after = "store")
       => hist'.pwm_failures > 3]_vars

\* C35: _initialize_pigpio ends after at most 10 attempts: at the first
\* attempt that succeeds, with a connected session and simulate False, or
\* after 10 failed attempts, with simulate True and no session; in
\* simulation the target is still taken and current_position still comes
\* within tolerance of it.
C35_InitialisationTerminates ==
    /\ [](servo.connection_attempts <= 10)
    /\ [](mpc = "connect" => <>(mpc # "connect"))
    /\ [][(/\ mpc = "connect"
            /\ servo'.connection_attempts # servo.connection_attempts)
            => /\ servo'.connection_attempts = servo.connection_attempts + 1
               /\ (pigpiod = "up")
                     => /\ mpc' # "connect"
                        /\ servo'.pi = "connected"
                        /\ ~servo'.simulate
               /\ (pigpiod = "down" /\ servo.connection_attempts < 9)
                     => /\ mpc' = "connect"
                        /\ servo'.pi = "none"
                        /\ ~servo'.simulate
               /\ (pigpiod = "down" /\ servo.connection_attempts = 9)
                     => /\ mpc' # "connect"
                        /\ servo'.pi = "none"
                        /\ servo'.simulate]_vars
    /\ [][(servo.simulate /\ budget'.calls = budget.calls + 1)
            => servo'.target_position \in {0, 100}]_vars
    /\ [](servo.simulate => <>(servo.simulate /\ AtTarget /\ mpc = "idle"))

\* All 10 attempts of the constructor failed; in simulation the target 10
\* was taken and the position has come to 9
C35_Witness ==
    /\ servo.simulate
    /\ servo.pi = "none"
    /\ servo.connection_attempts = 10
    /\ servo.target_position = 100
    /\ servo.current_position = 90
    /\ servo.last_pulse_width = 1105
    /\ mpc = "idle"

\* C36: a reconnection to the daemon, started by failed pulse writes or by
\* the health check, leaves target_position unchanged.
C36_ReconnectKeepsTarget ==
    [][(/\ mpc = "connect"
        /\ mot.after # "start"
        /\ servo'.connection_attempts # servo.connection_attempts)
       => servo'.target_position = servo.target_position]_vars

\* C37: the motion thread advances current_position only when the pulse
\* write succeeded, so that outside simulation the last pulse written is
\* the pulse of current_position.
C37_PositionFollowsPulse ==
    /\ [][(servo'.current_position # servo.current_position)
            => hist'.pwm_result = "ok"]_vars
    /\ []((mpc = "idle" /\ ~servo.simulate /\ hist.pwm_result # "none")
          => servo.last_pulse_width
                 = percent_to_pulse_width(servo.current_position))

\* C38: after the fallback to simulation, once the daemon is reachable again
\* and stays so, the Actuator reconnects: it leaves simulation for good.
C38_ReconnectsFromSimulation ==
    (<>[](pigpiod = "up")) => <>[](~servo.simulate)

\* ------------------------------------------------------------------------
\* Who touches the CSV file
\* ------------------------------------------------------------------------
\* C39: the CSV file is opened, written and closed by the control thread
\* only: no step of a caller of start_csv_logging or stop_csv_logging opens
\* or closes the file or replaces the handle.
C39_CsvFileOwnedByControlThread ==
    [][(\/ eng'.csv_file_handle # eng.csv_file_handle
        \/ eng'.open_files # eng.open_files
        \/ eng'.csv_rows # eng.csv_rows)
       => /\ budget'.calls = budget.calls
          /\ \A i \in DOMAIN callers : callers'[i].pc = callers[i].pc]_vars

\* ------------------------------------------------------------------------
\* Calibrating twice
\* ------------------------------------------------------------------------
\* C40: calibration is idempotent: after a successful calibrate_probe(pit,
\* actual_t) and once the pit reading is actual_t, a second
\* calibrate_probe(pit, actual_t) leaves offset_c unchanged.
C40_CalibrationIdempotent ==
    [][(/\ callers[1].op = "calibrate_probe"
        /\ callers[1].result = "ok"
        /\ ~hist.calibrated
        /\ mon.pit.is_valid
        /\ mon.pit.temperature_c = callers[1].arg
        /\ budget'.calls = budget.calls + 1
        /\ callers'[1].arg = callers[1].arg)
       => mon'.offset_c = mon.offset_c]_vars

====
